---- MODULE Spec2Model ----
(***************************************************************************)
(* Inventory-backed randomized assignment of the courtyard pack store:     *)
(* the health calculator (lib/pack-health.ts), the assignment engine       *)
(* (lib/assignment-engine.ts), the lock and cache helpers (lib/redis.ts),  *)
(* the checkout route and the buyback route, as a state machine of         *)
(* concurrent request handlers over one ledger (PostgreSQL through Prisma, *)
(* default READ COMMITTED isolation) and one coordination store.           *)
(***************************************************************************)
EXTENDS Integers, Sequences, FiniteSets, TLC

\* ------------------------------------------------------------------ bounds
NumProcs == 2          \* concurrent request handlers
MaxOpenings == 2       \* PackOpening rows ever created
MaxCalls == 1          \* direct calls of the exported entry points
BuybackCalls == 2      \* direct calls of assignItemToOpening beside the buyback route
OpeningCalls == 2      \* entry-point calls and webhook events on the pending openings
MaxSupplyP1 == 1       \* maxSupply of the limited pack
InitialBalance == 2    \* the user's balanceCents, in pack prices
MaxSupplyInput == 2    \* largest maxSupply handed to the health calculator
MaxSoldInput == 2      \* largest soldCount handed to the health calculator
MaxMinCountInput == 2  \* largest Guarantee.minCount handed to the health calculator
ReserveCalls == 3      \* calls of the reservation helpers and of assignItemToOpening beside them
MaxWeightInput == 2    \* largest TierWeight.weight handed to the selector
WebhookDeliveries == 2 \* deliveries of checkout.session.completed for the one session

\* ------------------------------------------------------- program constants
AssignMaxRetries == 3  \* withLock(..., { maxRetries: 3 }) in assignItemToOpening
AssignRetryDelayMs == 200  \* withLock(..., { retryDelayMs: 200 })
LowStockPercent == 20  \* LOW_STOCK_THRESHOLD * 100
BuybackRatePercent == 90   \* BUYBACK_RATE * 100
MaxQuantity == 3       \* MAX_QUANTITY of the multi-quantity checkout
LockMaxRetries == 5    \* withLock's default maxRetries, as reserveItemForCheckout uses it

\* ------------------------------------------------------------- the catalog
\* null, a value no count takes
NULL == 0 - 1
Procs == 1..NumProcs
OpeningIds == 1..MaxOpenings
Packs == {"p1", "p2"}
Items == {"i1", "i2", "i3"}
Tiers == {"rare", "common"}

\* Item.tierId
TierOf(i) == IF i = "i3" THEN "common" ELSE "rare"

\* PackPoolItem rows: the seed puts every item in the first pack and a
\* sub-range of tiers in the others, so pools share items.
Pool(p) == IF p = "p1" THEN {"i1", "i2", "i3"} ELSE {"i2", "i3"}

\* PackProduct.maxSupply (null = unlimited), a column no handler writes
VARIABLE maxSupply

MaxSupply(p) == maxSupply[p]

\* the seeded maxSupply of each pack
SeedMaxSupply == [p \in Packs |-> IF p = "p1" THEN MaxSupplyP1 ELSE NULL]

\* PackProduct.priceInCents, in units of one pack price
Price(p) == 1

\* Item.estimatedValue, in the same unit
EstimatedValue(i) == 2

\* PackProduct.config (null = the pack has no PackConfig), rows no handler
\* writes: guarantees and tierWeights in stored order
VARIABLE packConfig

\* pack.config === null
NoConfig == [present |-> FALSE, guarantees |-> << >>, tierWeights |-> << >>]

\* the seeded configuration of a pack, its guarantee asking for m items
ConfigWith(p, m) ==
  [present |-> TRUE,
   guarantees |-> IF p = "p1" THEN << [tierId |-> "rare", minCount |-> m] >>
                  ELSE << [tierId |-> "common", minCount |-> m] >>,
   tierWeights |-> IF p = "p1"
                   THEN << [tierId |-> "rare", weight |-> 1], [tierId |-> "common", weight |-> 2] >>
                   ELSE << [tierId |-> "common", weight |-> 1] >>]

SeedConfig == [p \in Packs |-> ConfigWith(p, 1)]

Guarantees(p) == packConfig[p].guarantees

TierWeights(p) == packConfig[p].tierWeights

\* a pack treated as configured whatever its config row
HasConfigAlways(p) == TRUE

\* !!pack.config
HasConfig(p) == packConfig[p].present

\* JavaScript truthiness of a number | null
Truthy(n) == n # NULL /\ n # 0

Min(a, b) == IF a < b THEN a ELSE b

\* Math.round((a / r) * 100) for r > 0
RoundPercent(a, r) == (200 * a + r) \div (2 * r)

\* ---------------------------------------------------- the health calculator
\* prisma.item.groupBy: AVAILABLE items of the pack's pool in one tier
AvailableIn(p, t, istat) ==
  Cardinality({i \in Pool(p) : TierOf(i) = t /\ istat[i] = "AVAILABLE"})

Unlimited(p) == ~Truthy(MaxSupply(p))

RemainingPacks(p, sold) == MaxSupply(p) - sold

\* an unlimited pack asked to cover the packs sold so far as well
RequiredTotalCumulative(p, sold, g) ==
  IF Unlimited(p) THEN (sold + 1) * g.minCount ELSE RemainingPacks(p, sold) * g.minCount

RequiredTotal(p, sold, g) ==
  IF Unlimited(p) THEN g.minCount ELSE RemainingPacks(p, sold) * g.minCount

\* a guarantee counted for one pack only, whatever the remaining supply
GuaranteeHealthPerUnit(p, sold, istat, g) ==
  LET available == AvailableIn(p, g.tierId, istat)
  IN [tierId |-> g.tierId, available |-> available, required |-> g.minCount,
      healthy |-> available >= g.minCount, percentage |-> 100]

GuaranteeHealth(p, sold, istat, g) ==
  LET available == AvailableIn(p, g.tierId, istat)
      required == RequiredTotal(p, sold, g)
      pct == IF required > 0 THEN RoundPercent(available, required) ELSE 100
  IN [tierId |-> g.tierId, available |-> available, required |-> required,
      healthy |-> available >= required, percentage |-> Min(pct, 100)]

GuaranteeTiers(p) == {Guarantees(p)[k].tierId : k \in DOMAIN Guarantees(p)}

WeightHealth(p, istat, w) ==
  LET available == AvailableIn(p, w.tierId, istat)
  IN [tierId |-> w.tierId, available |-> available, required |-> 1,
      healthy |-> available > 0, percentage |-> IF available > 0 THEN 100 ELSE 0]

\* tierHealth[], as the set of its entries
TierHealth(p, sold, istat) ==
  {GuaranteeHealth(p, sold, istat, Guarantees(p)[k]) : k \in DOMAIN Guarantees(p)}
  \cup {WeightHealth(p, istat, TierWeights(p)[k]) :
          k \in {j \in DOMAIN TierWeights(p) :
                   TierWeights(p)[j].weight > 0
                   /\ TierWeights(p)[j].tierId \notin GuaranteeTiers(p)}}

SupplyReached(p, sold) == Truthy(MaxSupply(p)) /\ sold >= MaxSupply(p)

\* an empty weighted tier blocking the sale like an unmet guarantee
CanSellOneEveryTier(p, sold, istat) ==
  /\ HasConfig(p)
  /\ \A th \in TierHealth(p, sold, istat) : th.healthy
  /\ ~SupplyReached(p, sold)

CanSellOne(p, sold, istat) ==
  /\ HasConfig(p)
  /\ \A k \in DOMAIN Guarantees(p) : GuaranteeHealth(p, sold, istat, Guarantees(p)[k]).healthy
  /\ ~SupplyReached(p, sold)

\* the low-stock test made first and on every tier entry, healthy or not
HealthStatusLowFirst(p, sold, istat) ==
  IF \E th \in TierHealth(p, sold, istat) : th.percentage <= LowStockPercent
  THEN "LOW_STOCK"
  ELSE IF ~CanSellOne(p, sold, istat) THEN "OUT_OF_STOCK"
  ELSE "SELLABLE"

HealthStatus(p, sold, istat) ==
  IF ~CanSellOne(p, sold, istat) THEN "OUT_OF_STOCK"
  ELSE IF \E th \in TierHealth(p, sold, istat) :
            th.healthy /\ th.percentage <= LowStockPercent
       THEN "LOW_STOCK"
       ELSE "SELLABLE"

\* The PackHealth value, reduced to the fields its readers use
CalcHealth(p, sold, istat) ==
  [canSellOne |-> CanSellOne(p, sold, istat), status |-> HealthStatus(p, sold, istat)]

\* warnings[], as the set of its entries; a record stands for the message
\* built from its fields
Warnings(p, sold, istat) ==
  IF ~HasConfig(p) THEN {[kind |-> "no_configuration"]}
  ELSE
    {[kind |-> "insufficient", tierId |-> th.tierId,
      available |-> th.available, required |-> th.required] :
        th \in {GuaranteeHealth(p, sold, istat, Guarantees(p)[k]) : k \in DOMAIN Guarantees(p)}
                \ {x \in {GuaranteeHealth(p, sold, istat, Guarantees(p)[k]) :
                              k \in DOMAIN Guarantees(p)} : x.healthy}}
    \cup
    {[kind |-> "low_stock", tierId |-> th.tierId, percentage |-> th.percentage] :
        th \in {x \in {GuaranteeHealth(p, sold, istat, Guarantees(p)[k]) :
                          k \in DOMAIN Guarantees(p)} :
                  x.healthy /\ x.percentage <= LowStockPercent}}
    \cup
    {[kind |-> "empty_tier", tierId |-> TierWeights(p)[k].tierId,
      weight |-> TierWeights(p)[k].weight] :
        k \in {j \in DOMAIN TierWeights(p) :
                 /\ TierWeights(p)[j].weight > 0
                 /\ TierWeights(p)[j].tierId \notin GuaranteeTiers(p)
                 /\ ~WeightHealth(p, istat, TierWeights(p)[j]).healthy}}
    \cup
    (IF SupplyReached(p, sold) THEN {[kind |-> "maximum_supply_reached"]} ELSE {})

\* The whole PackHealth value calculatePackHealth returns
PackHealth(p, sold, istat) ==
  [status |-> HealthStatus(p, sold, istat),
   remainingPacks |-> IF Unlimited(p) THEN NULL ELSE RemainingPacks(p, sold),
   maxSupply |-> MaxSupply(p),
   soldCount |-> sold,
   tierHealth |-> IF HasConfig(p) THEN TierHealth(p, sold, istat) ELSE {},
   canSellOne |-> CanSellOne(p, sold, istat),
   warnings |-> Warnings(p, sold, istat)]

\* ------------------------------------------------------ the weighted selector
\* the pool read without the status filter
AvailablePoolAny(p, istat) == Pool(p)

AvailablePool(p, istat) == {i \in Pool(p) : istat[i] = "AVAILABLE"}

\* itemsByTier[t]
ItemsByTier(p, t, istat) == {i \in AvailablePool(p, istat) : TierOf(i) = t}

\* activeWeights: the configured weights of the tiers that have items, in order
IsActiveWeight(p, istat, w) == ItemsByTier(p, w.tierId, istat) # {}

ActiveWeights(p, istat) ==
  SelectSeq(TierWeights(p), LAMBDA w : IsActiveWeight(p, istat, w))

RECURSIVE SumWeights(_)
SumWeights(ws) == IF ws = << >> THEN 0 ELSE Head(ws).weight + SumWeights(Tail(ws))

\* a walk that also stops when the roll equals the cumulative weight
ExceedsOrEqual(cumulative, roll) == roll <= cumulative

\* if (roll < cumulative)
Exceeds(cumulative, roll) == roll < cumulative

\* the tier walk: the first tier whose cumulative weight exceeds the roll,
\* the last tier when none does
RECURSIVE TierWalk(_, _, _)
TierWalk(ws, roll, cumulative) ==
  IF Len(ws) = 1 THEN Head(ws).tierId
  ELSE IF Exceeds(cumulative + Head(ws).weight, roll) THEN Head(ws).tierId
  ELSE TierWalk(Tail(ws), roll, cumulative + Head(ws).weight)

\* a selector that never takes the fallback
SelectFallbackNever(total, active) == FALSE

\* if (totalWeight === 0 || activeWeights.length === 0)
SelectFallback(total, active) == total = 0 \/ active = << >>

\* Math.random() * totalWeight falls in [k, k+1) for one integer k; with
\* integer weights the walk depends on k only.
Rolls(total) == 0..(total - 1)

\* every item selectItemFromPool can return; {} stands for null
SelectOutcomes(p, istat) ==
  LET avail == AvailablePool(p, istat)
      active == ActiveWeights(p, istat)
      total == SumWeights(active)
  IN IF avail = {} THEN {}
     ELSE IF SelectFallback(total, active) THEN avail
     ELSE UNION {ItemsByTier(p, TierWalk(active, r, 0), istat) : r \in Rolls(total)}

\* ------------------------------------------------------------------- state
VARIABLES
  itemStatus,   \* Item.status
  soldCount,    \* PackProduct.soldCount
  packStatus,   \* PackProduct.status
  openings,     \* PackOpening rows, by id: [pack, status]
  assignments,  \* Assignment rows, by id: [opening, item]
  holdings,     \* VaultHolding rows, by id: [assignment, item, status]
  balance,      \* User.balanceCents of the one buyer
  cache,        \* pack_health:<pack> entries of the cache store
  locks,        \* lock:<key> records of the coordination store: the holder, 0 = absent
  reservations, \* reservation:<session> records of the coordination store
  proc,         \* each request handler's position and locals
  calls         \* direct entry-point calls still to be made

vars == << maxSupply, packConfig, itemStatus, soldCount, packStatus, openings, assignments, holdings,
           balance, cache, locks, reservations, proc, calls >>

ledger == << maxSupply, packConfig, itemStatus, soldCount, packStatus, openings, assignments, holdings, balance >>

NoHealth == [canSellOne |-> FALSE, status |-> "NONE"]

\* one lock key for all packs
AssignLockKeyGlobal(p) == << "p1", "assignment" >>

\* lock key `pack:${pack.id}:assignment`
AssignLockKey(p) == << p, "assignment" >>

\* the reservation taking the assignment's lock

\* lock key `pack:${packProductId}:reserve`
ReserveLockKey(p) == << p, "reserve" >>
LockKeys == {AssignLockKey(p) : p \in Packs} \cup {ReserveLockKey(p) : p \in Packs}

\* checkout sessions that hold reservations
Sessions == {"s1", "s2"}

\* redis.get(`reservation:${sessionId}`) === null
NoReservation == [item |-> "none", pack |-> "none"]

IdleProc(outcome) ==
  [pc |-> "idle", caller |-> "none", op |-> 0, qty |-> 0, idx |-> 0, hd |-> 0, pk |-> "none", sel |-> "none",
   snap |-> 0, hres |-> NoHealth, ret |-> "none", retries |-> 0, delay |-> 0,
   relres |-> "none", err |-> << >>, st |-> "none", sess |-> "none",
   roll |-> NULL, tier |-> "none", out |-> outcome]

Init ==
  /\ maxSupply = SeedMaxSupply
  /\ packConfig = SeedConfig
  /\ itemStatus = [i \in Items |-> "AVAILABLE"]
  /\ soldCount = [p \in Packs |-> 0]
  /\ packStatus = [p \in Packs |-> "ACTIVE"]
  /\ openings = << >>
  /\ assignments = << >>
  /\ holdings = << >>
  /\ balance = InitialBalance
  /\ cache = [p \in Packs |-> NoHealth]
  /\ locks = [k \in LockKeys |-> 0]
  /\ reservations = [s \in Sessions |-> NoReservation]
  /\ proc = [p \in Procs |-> IdleProc("none")]
  /\ calls = MaxCalls

OpeningExists(o) == o \in DOMAIN openings
HasAssignment(o) == \E a \in DOMAIN assignments : assignments[a].opening = o

\* --------------------------------------------------------------- helpers
At(p, label) == proc[p].pc = label

Goto(p, label) == proc' = [proc EXCEPT ![p].pc = label]

\* Where control goes when assignItemToOpening returns or throws `outcome`:
\* the checkout route catches the error, refunds and marks the opening
\* FAILED; the other callers let it propagate.
AfterAssign(p, outcome) ==
  IF proc[p].caller = "checkout" /\ outcome # "ok"
  THEN [proc[p] EXCEPT !.pc = "crefund", !.out = outcome]
  ELSE IF proc[p].caller = "webhook" /\ outcome # "ok"
  THEN [proc[p] EXCEPT !.pc = "wfail", !.out = outcome]
  ELSE IF proc[p].caller = "multi" /\ proc[p].idx + 1 < proc[p].qty
  THEN [IdleProc("none") EXCEPT !.pc = "apre", !.caller = "multi", !.qty = proc[p].qty,
                                !.op = proc[p].op + 1, !.idx = proc[p].idx + 1]
  ELSE IdleProc(outcome)

\* p is between a successful acquire and its release: inside fn, or at the
\* finally block
InCritical(p) ==
  \/ proc[p].pc \in {"chk", "sel", "txr", "txw", "inv1", "inv2", "ups", "upsw", "rel"}
  \/ proc[p].pc \in {"hget", "hpack", "hitems", "hset"} /\ proc[p].ret \in {"chk", "ups"}

\* ------------------------------------------------- calculatePackHealth(pk)
\* Entered at "hget" with proc[p].ret naming the caller's continuation.

\* cacheGet: a hit returns the cached value
HealthCacheGet(p) ==
  /\ At(p, "hget")
  /\ proc' = [proc EXCEPT ![p] =
       IF cache[proc[p].pk] # NoHealth
       THEN [@ EXCEPT !.hres = cache[proc[p].pk], !.pc = proc[p].ret]
       ELSE [@ EXCEPT !.pc = "hpack"]]
  /\ UNCHANGED << ledger, cache, locks, reservations, calls >>

\* prisma.packProduct.findUnique: maxSupply, soldCount and config
HealthReadPack(p) ==
  /\ At(p, "hpack")
  /\ proc' = [proc EXCEPT ![p].snap = soldCount[proc[p].pk], ![p].pc = "hitems"]
  /\ UNCHANGED << ledger, cache, locks, reservations, calls >>

\* prisma.item.groupBy and the computation; a pack without config returns
\* without caching
HealthReadItems(p) ==
  /\ At(p, "hitems")
  /\ proc' = [proc EXCEPT ![p] =
       [@ EXCEPT !.hres = CalcHealth(proc[p].pk, proc[p].snap, itemStatus),
                 !.snap = 0,
                 !.pc = IF HasConfig(proc[p].pk) THEN "hset" ELSE proc[p].ret]]
  /\ UNCHANGED << ledger, cache, locks, reservations, calls >>

\* cacheSet(cacheKey, health, CACHE_TTL_SECONDS)
HealthCacheSet(p) ==
  /\ At(p, "hset")
  /\ cache' = [cache EXCEPT ![proc[p].pk] = proc[p].hres]
  /\ Goto(p, proc[p].ret)
  /\ UNCHANGED << ledger, locks, reservations, calls >>

\* the cache entry's TTL runs out
CacheExpire(pack) ==
  /\ cache[pack] # NoHealth
  /\ cache' = [cache EXCEPT ![pack] = NoHealth]
  /\ UNCHANGED << ledger, locks, proc, reservations, calls >>

\* ------------------------------------------------------- the checkout route
InCheckoutBeforeCreate(p) ==
  proc[p].caller = "checkout" /\ proc[p].op = 0

\* POST /api/purchase/checkout: the pack is read and must be ACTIVE, then
\* canSellPack is the pre-check. (A pack that is not ACTIVE is refused
\* without any effect.)
CheckoutStart(p, pack) ==
  /\ At(p, "idle")
  /\ Len(openings) + Cardinality({q \in Procs : InCheckoutBeforeCreate(q)}) < MaxOpenings
  /\ packStatus[pack] = "ACTIVE"
  /\ proc' = [proc EXCEPT ![p] =
       [IdleProc("none") EXCEPT !.pc = "hget", !.ret = "pre", !.pk = pack,
                                !.caller = "checkout"]]
  /\ UNCHANGED << ledger, cache, locks, reservations, calls >>

\* if (!canSell) the pack is written OUT_OF_STOCK and the purchase declined
CheckoutPreCheck(p) ==
  /\ At(p, "pre")
  /\ IF proc[p].hres.canSellOne
     THEN /\ Goto(p, "cuser")
          /\ UNCHANGED packStatus
     ELSE /\ packStatus' = [packStatus EXCEPT ![proc[p].pk] = "OUT_OF_STOCK"]
          /\ proc' = [proc EXCEPT ![p] = IdleProc("declined")]
  /\ UNCHANGED << maxSupply, packConfig, itemStatus, soldCount, openings, assignments, holdings, balance,
                  cache, locks, reservations, calls >>

\* the balance is read and compared with the price
CheckoutReadUser(p) ==
  /\ At(p, "cuser")
  /\ proc' = [proc EXCEPT ![p] =
       IF balance < Price(proc[p].pk) THEN IdleProc("nofunds")
       ELSE [@ EXCEPT !.pc = "ctx"]]
  /\ UNCHANGED << ledger, cache, locks, reservations, calls >>

\* one transaction: decrement the balance, create the PROCESSING opening
CheckoutCreate(p) ==
  /\ At(p, "ctx")
  /\ balance' = balance - Price(proc[p].pk)
  /\ openings' = Append(openings, [pack |-> proc[p].pk, status |-> "PROCESSING"])
  /\ proc' = [proc EXCEPT ![p].op = Len(openings) + 1, ![p].pc = "apre"]
  /\ UNCHANGED << maxSupply, packConfig, itemStatus, soldCount, packStatus, assignments, holdings,
                  cache, locks, reservations, calls >>

\* catch (assignError): the price is refunded ...
CheckoutRefund(p) ==
  /\ At(p, "crefund")
  /\ balance' = balance + Price(openings[proc[p].op].pack)
  /\ Goto(p, "cfail")
  /\ UNCHANGED << maxSupply, packConfig, itemStatus, soldCount, packStatus, openings, assignments, holdings,
                  cache, locks, reservations, calls >>

\* ... and, in a second statement, the opening is marked FAILED
CheckoutMarkFailed(p) ==
  /\ At(p, "cfail")
  /\ openings' = [openings EXCEPT ![proc[p].op].status = "FAILED"]
  /\ proc' = [proc EXCEPT ![p] = IdleProc(proc[p].out)]
  /\ UNCHANGED << maxSupply, packConfig, itemStatus, soldCount, packStatus, assignments, holdings, balance,
                  cache, locks, reservations, calls >>

\* ------------------------------------- the checkout route, multi-quantity
\* openings that checkouts under way will still create
MultiReserved ==
  Cardinality({qn \in Procs \X (1..MaxQuantity) :
                 /\ proc[qn[1]].caller = "multi"
                 /\ proc[qn[1]].op = 0
                 /\ qn[2] <= proc[qn[1]].qty})

\* POST with a quantity: pack and user are read together; the pack must be
\* ACTIVE and the balance cover quantity * price
MultiStart(p, pack, q) ==
  /\ At(p, "idle")
  /\ Len(openings) + MultiReserved + q <= MaxOpenings
  /\ packStatus[pack] = "ACTIVE"
  /\ proc' = [proc EXCEPT ![p] =
       IF balance < Price(pack) * q THEN IdleProc("nofunds")
       ELSE [IdleProc("none") EXCEPT !.pc = "hget", !.ret = "mpre", !.pk = pack,
                                     !.caller = "multi", !.qty = q]]
  /\ UNCHANGED << ledger, cache, locks, reservations, calls >>

\* for (i < qty) canSellPack: a refusal writes the pack OUT_OF_STOCK
MultiPreCheck(p) ==
  /\ At(p, "mpre")
  /\ IF ~proc[p].hres.canSellOne
     THEN /\ packStatus' = [packStatus EXCEPT ![proc[p].pk] = "OUT_OF_STOCK"]
          /\ proc' = [proc EXCEPT ![p] = IdleProc("declined")]
     ELSE /\ UNCHANGED packStatus
          /\ proc' = [proc EXCEPT ![p] =
               IF proc[p].idx + 1 < proc[p].qty
               THEN [@ EXCEPT !.idx = @ + 1, !.pc = "hget"]
               ELSE [@ EXCEPT !.idx = 0, !.pc = "mtx"]]
  /\ UNCHANGED << maxSupply, packConfig, itemStatus, soldCount, openings, assignments, holdings, balance,
                  cache, locks, reservations, calls >>

\* one transaction: the total is taken from the balance and qty PROCESSING
\* openings are created; the openings are then assigned one after another,
\* an assignment error being logged and nothing else
MultiCreate(p) ==
  /\ At(p, "mtx")
  /\ balance' = balance - Price(proc[p].pk) * proc[p].qty
  /\ openings' = openings \o [n \in 1..proc[p].qty |->
                                [pack |-> proc[p].pk, status |-> "PROCESSING"]]
  /\ proc' = [proc EXCEPT ![p].op = Len(openings) + 1, ![p].pc = "apre"]
  /\ UNCHANGED << maxSupply, packConfig, itemStatus, soldCount, packStatus, assignments, holdings,
                  cache, locks, reservations, calls >>

\* ---------------------------------------------- assignItemToOpening(op)
\* The query that loads the opening includes packProduct and its config but
\* not the assignment relation, so `opening.assignment` is undefined for
\* every opening and the third precondition never fires.
LoadedAssignment(o) == FALSE

\* Assignment.openingId is unique (PackOpening.assignment is a one-to-one
\* relation): a second Assignment for the opening violates the constraint.
OpeningIdTaken(o) == HasAssignment(o)

\* findUnique and the three precondition checks
AssignPreconditions(p) ==
  /\ At(p, "apre")
  /\ LET o == proc[p].op IN
       proc' = [proc EXCEPT ![p] =
         IF ~OpeningExists(o) THEN AfterAssign(p, "notfound")
         ELSE IF openings[o].status # "PROCESSING" THEN AfterAssign(p, "notprocessing")
         ELSE IF LoadedAssignment(o) THEN AfterAssign(p, "hasassignment")
         ELSE [@ EXCEPT !.pk = openings[o].pack, !.pc = "acq", !.retries = 0]]
  /\ UNCHANGED << ledger, cache, locks, reservations, calls >>

\* the acquire written as SET key value EX ttl, without NX
LockAcquireOverwrite(p) ==
  /\ At(p, "acq")
  /\ locks' = [locks EXCEPT ![AssignLockKey(proc[p].pk)] = p]
  /\ proc' = [proc EXCEPT ![p].pc = "hget", ![p].ret = "chk", ![p].delay = 0]
  /\ UNCHANGED << ledger, cache, reservations, calls >>

\* what the error of withLock names: the key and maxRetries
LockError(k) == << k, AssignMaxRetries >>

\* the retry loop sleeping retryDelayMs after every failed attempt
LockAcquireFlatDelay(p) ==
  /\ At(p, "acq")
  /\ LET k == AssignLockKey(proc[p].pk) IN
       IF locks[k] = 0
       THEN /\ locks' = [locks EXCEPT ![k] = p]
            /\ proc' = [proc EXCEPT ![p].pc = "hget", ![p].ret = "chk", ![p].delay = 0]
       ELSE /\ UNCHANGED locks
            /\ proc' = [proc EXCEPT ![p] =
                 IF proc[p].retries + 1 >= AssignMaxRetries
                 THEN [AfterAssign(p, "lockfail") EXCEPT !.err = LockError(k)]
                 ELSE [@ EXCEPT !.retries = @ + 1, !.delay = AssignRetryDelayMs]]
  /\ UNCHANGED << ledger, cache, reservations, calls >>

\* withLock: lock.acquire() is SET key value EX ttl NX; a failed attempt
\* counts a retry and is followed by a sleep of retryDelayMs * retries (the
\* sleep touches no state and is taken together with the attempt that
\* follows it); maxRetries failed attempts throw.
LockAcquire(p) ==
  /\ At(p, "acq")
  /\ LET k == AssignLockKey(proc[p].pk) IN
       IF locks[k] = 0
       THEN /\ locks' = [locks EXCEPT ![k] = p]
            /\ proc' = [proc EXCEPT ![p].pc = "hget", ![p].ret = "chk", ![p].delay = 0]
       ELSE /\ UNCHANGED locks
            /\ proc' = [proc EXCEPT ![p] =
                 IF proc[p].retries + 1 >= AssignMaxRetries
                 THEN [AfterAssign(p, "lockfail") EXCEPT !.err = LockError(k)]
                 ELSE [@ EXCEPT !.retries = @ + 1,
                                !.delay = AssignRetryDelayMs * (proc[p].retries + 1)]]
  /\ UNCHANGED << ledger, cache, reservations, calls >>

\* the critical section entered without consulting the health
InLockCheckSkipped(p) ==
  /\ At(p, "chk")
  /\ proc' = [proc EXCEPT ![p].pc = "sel"]
  /\ UNCHANGED << ledger, cache, locks, reservations, calls >>

\* the decline marking the opening FAILED before it throws
InLockCheckMarkFailed(p) ==
  /\ At(p, "chk")
  /\ IF proc[p].hres.canSellOne
     THEN /\ proc' = [proc EXCEPT ![p].pc = "sel"]
          /\ UNCHANGED openings
     ELSE /\ proc' = [proc EXCEPT ![p].pc = "rel", ![p].out = "stockout"]
          /\ openings' = [openings EXCEPT ![proc[p].op].status = "FAILED"]
  /\ UNCHANGED << maxSupply, packConfig, itemStatus, soldCount, packStatus, assignments,
                  holdings, balance, cache, locks, reservations, calls >>

\* const canSell = await canSellPack(pack.id); if (!canSell) throw
InLockCheck(p) ==
  /\ At(p, "chk")
  /\ proc' = [proc EXCEPT ![p] =
       IF proc[p].hres.canSellOne THEN [@ EXCEPT !.pc = "sel"]
       ELSE [@ EXCEPT !.pc = "rel", !.out = "stockout"]]
  /\ UNCHANGED << ledger, cache, locks, reservations, calls >>

\* selectItemFromPool(pack.id, pack.config)
SelectItem(p) ==
  /\ At(p, "sel")
  /\ LET outcomes == SelectOutcomes(proc[p].pk, itemStatus) IN
       IF ~HasConfig(proc[p].pk)
       THEN proc' = [proc EXCEPT ![p].pc = "rel", ![p].out = "noconfig"]
       ELSE IF outcomes = {}
       THEN proc' = [proc EXCEPT ![p].pc = "rel", ![p].out = "emptypool"]
       ELSE \E i \in outcomes : proc' = [proc EXCEPT ![p].sel = i, ![p].pc = "txr"]
  /\ UNCHANGED << ledger, cache, locks, reservations, calls >>

\* a transaction that does not look at the status it read
TxReadItemUnchecked(p) ==
  /\ At(p, "txr")
  /\ Goto(p, "txw")
  /\ UNCHANGED << ledger, cache, locks, reservations, calls >>

\* prisma.$transaction, first statement: tx.item.findUnique is a plain read
\* of the committed row (no row lock is taken), checked for AVAILABLE
TxReadItem(p) ==
  /\ At(p, "txr")
  /\ proc' = [proc EXCEPT ![p] =
       IF itemStatus[proc[p].sel] # "AVAILABLE"
       THEN [@ EXCEPT !.pc = "rel", !.out = "gone"]
       ELSE [@ EXCEPT !.pc = "txw"]]
  /\ UNCHANGED << ledger, cache, locks, reservations, calls >>

\* the writes without the soldCount increment
CommitWritesNoCount(p) ==
  LET o == proc[p].op
      i == proc[p].sel
      a == Len(assignments) + 1
  IN /\ itemStatus' = [itemStatus EXCEPT ![i] = "ASSIGNED"]
     /\ assignments' = Append(assignments, [opening |-> o, item |-> i])
     /\ holdings' = Append(holdings, [assignment |-> a, item |-> i, status |-> "HOLDING"])
     /\ openings' = [openings EXCEPT ![o].status = "COMPLETED"]
     /\ UNCHANGED soldCount

\* the writes with the sale counted on every pack whose pool holds the item
CommitWritesCountPools(p) ==
  LET o == proc[p].op
      i == proc[p].sel
      a == Len(assignments) + 1
  IN /\ itemStatus' = [itemStatus EXCEPT ![i] = "ASSIGNED"]
     /\ assignments' = Append(assignments, [opening |-> o, item |-> i])
     /\ holdings' = Append(holdings, [assignment |-> a, item |-> i, status |-> "HOLDING"])
     /\ openings' = [openings EXCEPT ![o].status = "COMPLETED"]
     /\ soldCount' = [q \in Packs |-> IF i \in Pool(q) THEN soldCount[q] + 1 ELSE soldCount[q]]

\* the five writes of the transaction
CommitWrites(p) ==
  LET o == proc[p].op
      i == proc[p].sel
      a == Len(assignments) + 1
  IN /\ itemStatus' = [itemStatus EXCEPT ![i] = "ASSIGNED"]
     /\ assignments' = Append(assignments, [opening |-> o, item |-> i])
     /\ holdings' = Append(holdings, [assignment |-> a, item |-> i, status |-> "HOLDING"])
     /\ openings' = [openings EXCEPT ![o].status = "COMPLETED"]
     /\ soldCount' = [soldCount EXCEPT ![proc[p].pk] = @ + 1]

\* the writes with no unique constraint on Assignment.openingId
TxWriteCommitUnconstrained(p) ==
  /\ At(p, "txw")
  /\ CommitWrites(p)
  /\ Goto(p, "inv1")
  /\ UNCHANGED << maxSupply, packConfig, packStatus, balance, cache, locks, reservations, calls >>

\* prisma.$transaction, the writes and the commit. Under READ COMMITTED the
\* writes are blind updates, an atomic increment and inserts: they wait for
\* a concurrent writer of the same row to commit and then apply, so they
\* take effect together at the commit; a unique violation rolls all back.
TxWriteCommit(p) ==
  /\ At(p, "txw")
  /\ IF OpeningIdTaken(proc[p].op)
     THEN /\ proc' = [proc EXCEPT ![p].pc = "rel", ![p].out = "unique"]
          /\ UNCHANGED << maxSupply, packConfig, itemStatus, assignments, holdings, openings, soldCount >>
     ELSE /\ CommitWrites(p)
          /\ Goto(p, "inv1")
  /\ UNCHANGED << maxSupply, packConfig, packStatus, balance, cache, locks, reservations, calls >>

\* invalidatePackHealth(pack.id)
InvalidatePack(p) ==
  /\ At(p, "inv1")
  /\ cache' = [cache EXCEPT ![proc[p].pk] = NoHealth]
  /\ Goto(p, "inv2")
  /\ UNCHANGED << ledger, locks, reservations, calls >>

\* invalidatePackHealthForItem(selectedItem.id): one cacheDelete per pack
\* whose pool holds the item (deletes of distinct keys commute)
InvalidateForItem(p) ==
  /\ At(p, "inv2")
  /\ cache' = [q \in Packs |-> IF proc[p].sel \in Pool(q) THEN NoHealth ELSE cache[q]]
  /\ proc' = [proc EXCEPT ![p].pc = "hget", ![p].ret = "ups"]
  /\ UNCHANGED << ledger, locks, reservations, calls >>

\* updatePackStatusFromHealth: after the health, the persisted status is read
StatusRead(p) ==
  /\ At(p, "ups")
  /\ proc' = [proc EXCEPT ![p].st = packStatus[proc[p].pk], ![p].pc = "upsw"]
  /\ UNCHANGED << ledger, cache, locks, reservations, calls >>

\* the downgrade made whatever the persisted status was
StatusDowngradeAlways(p) ==
  /\ At(p, "upsw")
  /\ packStatus' =
       IF ~proc[p].hres.canSellOne
       THEN [packStatus EXCEPT ![proc[p].pk] = "OUT_OF_STOCK"]
       ELSE packStatus
  /\ proc' = [proc EXCEPT ![p].pc = "rel", ![p].out = "ok", ![p].st = "none"]
  /\ UNCHANGED << maxSupply, packConfig, itemStatus, soldCount, openings, assignments, holdings,
                  balance, cache, locks, reservations, calls >>

\* ... and downgraded when it was ACTIVE and the health says no
StatusDowngrade(p) ==
  /\ At(p, "upsw")
  /\ packStatus' =
       IF proc[p].st = "ACTIVE" /\ ~proc[p].hres.canSellOne
       THEN [packStatus EXCEPT ![proc[p].pk] = "OUT_OF_STOCK"]
       ELSE packStatus
  /\ proc' = [proc EXCEPT ![p].pc = "rel", ![p].out = "ok", ![p].st = "none"]
  /\ UNCHANGED << maxSupply, packConfig, itemStatus, soldCount, openings, assignments, holdings, balance,
                  cache, locks, reservations, calls >>

\* the release written as a plain DEL of the key
LockReleaseUnchecked(p) ==
  /\ At(p, "rel")
  /\ locks' = [locks EXCEPT ![AssignLockKey(proc[p].pk)] = 0]
  /\ proc' = [proc EXCEPT ![p] = [AfterAssign(p, proc[p].out) EXCEPT !.relres = "true"]]
  /\ UNCHANGED << ledger, cache, reservations, calls >>

\* the release placed after fn instead of in a finally block: an error of fn
\* skips it
LockReleaseOnSuccess(p) ==
  /\ At(p, "rel")
  /\ LET k == AssignLockKey(proc[p].pk)
         mine == locks[k] = p /\ proc[p].out = "ok"
     IN /\ locks' = IF mine THEN [locks EXCEPT ![k] = 0] ELSE locks
        /\ proc' = [proc EXCEPT ![p] =
             [AfterAssign(p, proc[p].out) EXCEPT
                !.relres = IF proc[p].out # "ok" THEN "none"
                           ELSE IF mine THEN "true" ELSE "false"]]
  /\ UNCHANGED << ledger, cache, reservations, calls >>

\* finally { lock.release() }: delete the record if it still holds this
\* holder's value, and return whether it did; then the result or the error
\* of fn reaches the caller
LockRelease(p) ==
  /\ At(p, "rel")
  /\ LET k == AssignLockKey(proc[p].pk)
         mine == locks[k] = p
     IN /\ locks' = IF mine THEN [locks EXCEPT ![k] = 0] ELSE locks
        /\ proc' = [proc EXCEPT ![p] =
             [AfterAssign(p, proc[p].out) EXCEPT !.relres = IF mine THEN "true" ELSE "false"]]
  /\ UNCHANGED << ledger, cache, reservations, calls >>

\* a lock record written without a TTL
LockExpireNever(k) ==
  /\ FALSE
  /\ UNCHANGED vars

\* the lock record's TTL runs out while its holder is still at work
LockExpire(k) ==
  /\ locks[k] # 0
  /\ locks' = [locks EXCEPT ![k] = 0]
  /\ UNCHANGED << ledger, cache, proc, reservations, calls >>

\* the server process running p dies inside fn while its lock record is in
\* place: nothing of p runs any more, the finally block included, and an
\* open transaction is rolled back
Crash(p) ==
  /\ InCritical(p)
  /\ locks[AssignLockKey(proc[p].pk)] = p
  /\ proc' = [proc EXCEPT ![p].pc = "crashed"]
  /\ UNCHANGED << ledger, cache, locks, reservations, calls >>

\* -------------------------------------------------------- the buyback route
\* Math.floor(holding.item.estimatedValue * BUYBACK_RATE)
BuybackAmount(i) == (EstimatedValue(i) * BuybackRatePercent) \div 100

\* POST /api/vault/buyback: the holding is looked up with status HOLDING,
\* outside the transaction; none found is a 404
BuybackStart(p, h) ==
  /\ At(p, "idle")
  /\ h \in DOMAIN holdings
  /\ proc' = [proc EXCEPT ![p] =
       IF holdings[h].status = "HOLDING"
       THEN [IdleProc("none") EXCEPT !.pc = "btx", !.hd = h, !.sel = holdings[h].item,
                                     !.caller = "buyback"]
       ELSE IdleProc("notheld")]
  /\ UNCHANGED << ledger, cache, locks, reservations, calls >>

\* the transaction: the holding is set SOLD, the item AVAILABLE and the
\* balance credited, by id, whatever the rows hold by now
BuybackCommit(p) ==
  /\ At(p, "btx")
  /\ holdings' = [holdings EXCEPT ![proc[p].hd].status = "SOLD"]
  /\ itemStatus' = [itemStatus EXCEPT ![proc[p].sel] = "AVAILABLE"]
  /\ balance' = balance + BuybackAmount(proc[p].sel)
  /\ proc' = [proc EXCEPT ![p] = IdleProc("sold")]
  /\ UNCHANGED << maxSupply, packConfig, soldCount, packStatus, openings, assignments, cache, locks, reservations, calls >>

\* ------------------------------------------------- the exported entry points
\* assignItemToOpening(openingId), called with any id
AssignCall(p, o) ==
  /\ At(p, "idle")
  /\ calls > 0
  /\ calls' = calls - 1
  /\ proc' = [proc EXCEPT ![p] =
       [IdleProc("none") EXCEPT !.pc = "apre", !.op = o, !.caller = "direct"]]
  /\ UNCHANGED << ledger, cache, locks, reservations >>

\* handlePaymentConfirmed(openingId): the opening is set PROCESSING whatever
\* its status was, then assignItemToOpening runs
HandlePaymentConfirmed(p, o) ==
  /\ At(p, "idle")
  /\ calls > 0
  /\ OpeningExists(o)
  /\ calls' = calls - 1
  /\ openings' = [openings EXCEPT ![o].status = "PROCESSING"]
  /\ proc' = [proc EXCEPT ![p] =
       [IdleProc("none") EXCEPT !.pc = "apre", !.op = o, !.caller = "confirm"]]
  /\ UNCHANGED << maxSupply, packConfig, itemStatus, soldCount, packStatus, assignments, holdings, balance,
                  cache, locks, reservations >>

\* handlePaymentFailed(openingId): the opening is set FAILED whatever its
\* status was
HandlePaymentFailed(p, o) ==
  /\ At(p, "idle")
  /\ calls > 0
  /\ OpeningExists(o)
  /\ calls' = calls - 1
  /\ openings' = [openings EXCEPT ![o].status = "FAILED"]
  /\ proc' = [proc EXCEPT ![p] = IdleProc("failed")]
  /\ UNCHANGED << maxSupply, packConfig, itemStatus, soldCount, packStatus, assignments, holdings, balance,
                  cache, locks, reservations >>

\* markOpeningRevealed(openingId), as POST /api/openings/[id]/reveal calls
\* it: the opening is set REVEALED whatever its status was
MarkOpeningRevealed(p, o) ==
  /\ At(p, "idle")
  /\ calls > 0
  /\ OpeningExists(o)
  /\ calls' = calls - 1
  /\ openings' = [openings EXCEPT ![o].status = "REVEALED"]
  /\ proc' = [proc EXCEPT ![p] = IdleProc("revealed")]
  /\ UNCHANGED << maxSupply, packConfig, itemStatus, soldCount, packStatus, assignments, holdings, balance,
                  cache, locks, reservations >>

\* ------------------------------------------------------ the Stripe webhook
\* checkout.session.completed: the opening of the session is read; one that
\* is not PENDING is skipped
HandleCheckoutCompleted(p, o) ==
  /\ At(p, "idle")
  /\ calls > 0
  /\ OpeningExists(o)
  /\ calls' = calls - 1
  /\ proc' = [proc EXCEPT ![p] =
       IF openings[o].status # "PENDING" THEN IdleProc("skipped")
       ELSE [IdleProc("none") EXCEPT !.pc = "wconf", !.op = o, !.caller = "webhook"]]
  /\ UNCHANGED << ledger, cache, locks, reservations >>

\* ... then handlePaymentConfirmed sets it PROCESSING and assigns
WebhookConfirm(p) ==
  /\ At(p, "wconf")
  /\ openings' = [openings EXCEPT ![proc[p].op].status = "PROCESSING"]
  /\ Goto(p, "apre")
  /\ UNCHANGED << maxSupply, packConfig, itemStatus, soldCount, packStatus, assignments, holdings, balance,
                  cache, locks, reservations, calls >>

\* catch (error): the opening is marked FAILED
WebhookMarkFailed(p) ==
  /\ At(p, "wfail")
  /\ openings' = [openings EXCEPT ![proc[p].op].status = "FAILED"]
  /\ proc' = [proc EXCEPT ![p] = IdleProc(proc[p].out)]
  /\ UNCHANGED << maxSupply, packConfig, itemStatus, soldCount, packStatus, assignments, holdings, balance,
                  cache, locks, reservations, calls >>

\* checkout.session.expired: the opening is read ...
HandleCheckoutExpired(p, o) ==
  /\ At(p, "idle")
  /\ calls > 0
  /\ OpeningExists(o)
  /\ calls' = calls - 1
  /\ proc' = [proc EXCEPT ![p] =
       IF openings[o].status # "PENDING" THEN IdleProc("skipped")
       ELSE [IdleProc("none") EXCEPT !.pc = "wexp", !.op = o, !.caller = "webhook"]]
  /\ UNCHANGED << ledger, cache, locks, reservations >>

\* ... and, if it was PENDING, set FAILED
WebhookExpire(p) ==
  /\ At(p, "wexp")
  /\ openings' = [openings EXCEPT ![proc[p].op].status = "FAILED"]
  /\ proc' = [proc EXCEPT ![p] = IdleProc("expired")]
  /\ UNCHANGED << maxSupply, packConfig, itemStatus, soldCount, packStatus, assignments, holdings, balance,
                  cache, locks, reservations, calls >>

\* ----------------------------------------------------------- reservations
\* reserveItemForCheckout(pack, session), called by any checkout flow
ReserveCall(p, pack, sn) ==
  /\ At(p, "idle")
  /\ calls > 0
  /\ calls' = calls - 1
  /\ proc' = [proc EXCEPT ![p] =
       [IdleProc("none") EXCEPT !.pc = "racq", !.pk = pack, !.sess = sn,
                                !.caller = "reserve"]]
  /\ UNCHANGED << ledger, cache, locks, reservations >>

\* withLock(`pack:${packProductId}:reserve`) with the default options
ReserveAcquire(p) ==
  /\ At(p, "racq")
  /\ LET k == ReserveLockKey(proc[p].pk) IN
       IF locks[k] = 0
       THEN /\ locks' = [locks EXCEPT ![k] = p]
            /\ proc' = [proc EXCEPT ![p].pc = "rfind"]
       ELSE /\ UNCHANGED locks
            /\ proc' = [proc EXCEPT ![p] =
                 IF proc[p].retries + 1 >= LockMaxRetries
                 THEN IdleProc("lockfail")
                 ELSE [@ EXCEPT !.retries = @ + 1]]
  /\ UNCHANGED << ledger, cache, reservations, calls >>

\* prisma.item.findFirst: some AVAILABLE item of the pool (no order is
\* asked for), or none
ReserveFind(p) ==
  /\ At(p, "rfind")
  /\ LET avail == AvailablePool(proc[p].pk, itemStatus) IN
       IF avail = {}
       THEN proc' = [proc EXCEPT ![p].pc = "rrel", ![p].out = "noitem"]
       ELSE \E i \in avail : proc' = [proc EXCEPT ![p].sel = i, ![p].pc = "rupd"]
  /\ UNCHANGED << ledger, cache, locks, reservations, calls >>

\* prisma.item.update by id: the item is set RESERVED whatever it holds now
ReserveUpdate(p) ==
  /\ At(p, "rupd")
  /\ itemStatus' = [itemStatus EXCEPT ![proc[p].sel] = "RESERVED"]
  /\ Goto(p, "rset")
  /\ UNCHANGED << maxSupply, packConfig, soldCount, packStatus, openings, assignments,
                  holdings, balance, cache, locks, reservations, calls >>

\* redis.set(`reservation:${sessionId}`, {itemId, packProductId}, "EX", ttl)
ReserveRecord(p) ==
  /\ At(p, "rset")
  /\ reservations' = [reservations EXCEPT ![proc[p].sess] =
                        [item |-> proc[p].sel, pack |-> proc[p].pk]]
  /\ proc' = [proc EXCEPT ![p].pc = "rrel", ![p].out = "reserved"]
  /\ UNCHANGED << ledger, cache, locks, calls >>

\* finally { lock.release() } of the reservation's withLock
ReserveLockRelease(p) ==
  /\ At(p, "rrel")
  /\ LET k == ReserveLockKey(proc[p].pk) IN
       locks' = IF locks[k] = p THEN [locks EXCEPT ![k] = 0] ELSE locks
  /\ proc' = [proc EXCEPT ![p] =
       IF proc[p].caller = "pair" /\ proc[p].out = "reserved"
       THEN [@ EXCEPT !.pc = "lget"]
       ELSE IdleProc(proc[p].out)]
  /\ UNCHANGED << ledger, cache, reservations, calls >>

\* releaseReservation(session)
ReleaseCall(p, sn) ==
  /\ At(p, "idle")
  /\ calls > 0
  /\ calls' = calls - 1
  /\ proc' = [proc EXCEPT ![p] =
       [IdleProc("none") EXCEPT !.pc = "lget", !.sess = sn, !.caller = "release"]]
  /\ UNCHANGED << ledger, cache, locks, reservations >>

\* redis.get: no record, nothing to do
ReleaseGet(p) ==
  /\ At(p, "lget")
  /\ LET r == reservations[proc[p].sess] IN
       proc' = [proc EXCEPT ![p] =
         IF r = NoReservation THEN IdleProc("norecord")
         ELSE [@ EXCEPT !.sel = r.item, !.pk = r.pack, !.pc = "lupd"]]
  /\ UNCHANGED << ledger, cache, locks, reservations, calls >>

\* the release without the write of the item
ReleaseUpdateSkipped(p) ==
  /\ At(p, "lupd")
  /\ Goto(p, "ldel")
  /\ UNCHANGED << ledger, cache, locks, reservations, calls >>

\* prisma.item.update by id: the item is set AVAILABLE whatever it holds now
ReleaseUpdate(p) ==
  /\ At(p, "lupd")
  /\ itemStatus' = [itemStatus EXCEPT ![proc[p].sel] = "AVAILABLE"]
  /\ Goto(p, "ldel")
  /\ UNCHANGED << maxSupply, packConfig, soldCount, packStatus, openings, assignments,
                  holdings, balance, cache, locks, reservations, calls >>

\* redis.del(`reservation:${sessionId}`)
ReleaseDelete(p) ==
  /\ At(p, "ldel")
  /\ reservations' = [reservations EXCEPT ![proc[p].sess] = NoReservation]
  /\ Goto(p, "linv")
  /\ UNCHANGED << ledger, cache, locks, calls >>

\* invalidatePackHealth(packProductId) of the reservation's pack
ReleaseInvalidate(p) ==
  /\ At(p, "linv")
  /\ cache' = [cache EXCEPT ![proc[p].pk] = NoHealth]
  /\ proc' = [proc EXCEPT ![p] = IdleProc("released")]
  /\ UNCHANGED << ledger, locks, reservations, calls >>

\* A checkout that reserves for a session with no reservation and releases
\* it again, while nothing else runs; it remembers the item statuses it found.
PairCall(p, pack, sn) ==
  /\ \A q \in Procs : At(q, "idle")
  /\ reservations[sn] = NoReservation
  /\ calls > 0
  /\ calls' = calls - 1
  /\ proc' = [proc EXCEPT ![p] =
       [IdleProc("none") EXCEPT !.pc = "racq", !.pk = pack, !.sess = sn,
                                !.caller = "pair", !.snap = itemStatus]]
  /\ UNCHANGED << ledger, cache, locks, reservations >>

\* the reservation record's TTL runs out
ReservationExpire(sn) ==
  /\ reservations[sn] # NoReservation
  /\ reservations' = [reservations EXCEPT ![sn] = NoReservation]
  /\ UNCHANGED << ledger, cache, locks, proc, calls >>

ReserveStep(p) ==
  \/ ReserveAcquire(p)
  \/ ReserveFind(p)
  \/ ReserveUpdate(p)
  \/ ReserveRecord(p)
  \/ ReserveLockRelease(p)

ReleaseStep(p) ==
  \/ ReleaseGet(p)
  \/ ReleaseUpdate(p)
  \/ ReleaseDelete(p)
  \/ ReleaseInvalidate(p)

\* ------------------------------------------------------------ specification
HealthStep(p) ==
  \/ HealthCacheGet(p)
  \/ HealthReadPack(p)
  \/ HealthReadItems(p)
  \/ HealthCacheSet(p)

CheckoutStep(p) ==
  \/ \E pack \in Packs : CheckoutStart(p, pack)
  \/ CheckoutPreCheck(p)
  \/ CheckoutReadUser(p)
  \/ CheckoutCreate(p)
  \/ CheckoutRefund(p)
  \/ CheckoutMarkFailed(p)

AssignStep(p) ==
  \/ AssignPreconditions(p)
  \/ LockAcquire(p)
  \/ InLockCheck(p)
  \/ SelectItem(p)
  \/ TxReadItem(p)
  \/ TxWriteCommit(p)
  \/ InvalidatePack(p)
  \/ InvalidateForItem(p)
  \/ StatusRead(p)
  \/ StatusDowngrade(p)
  \/ LockRelease(p)

EntryStep(p) ==
  \/ \E o \in OpeningIds : AssignCall(p, o)
  \/ \E o \in OpeningIds : HandlePaymentConfirmed(p, o)

Next ==
  \/ \E p \in Procs : HealthStep(p)
  \/ \E p \in Procs : CheckoutStep(p)
  \/ \E p \in Procs : AssignStep(p)
  \/ \E p \in Procs : EntryStep(p)
  \/ \E pack \in Packs : CacheExpire(pack)

Spec == Init /\ [][Next]_vars

\* -------------------------------------------- two concurrent assignment calls
\* Two PROCESSING openings of the unlimited pack, whose guaranteed tier holds
\* one item, and one assignItemToOpening call under way for each; the health
\* cache is empty or holds the current health.
InitConcurrent ==
  /\ maxSupply = SeedMaxSupply
  /\ packConfig = SeedConfig
  /\ itemStatus = [i \in Items |-> "AVAILABLE"]
  /\ soldCount = [p \in Packs |-> 0]
  /\ packStatus = [p \in Packs |-> "ACTIVE"]
  /\ openings = << [pack |-> "p2", status |-> "PROCESSING"],
                   [pack |-> "p2", status |-> "PROCESSING"] >>
  /\ assignments = << >>
  /\ holdings = << >>
  /\ balance = InitialBalance
  /\ cache \in {[p \in Packs |-> NoHealth],
                [p \in Packs |-> IF p = "p2" THEN CalcHealth(p, 0, itemStatus) ELSE NoHealth]}
  /\ locks = [k \in LockKeys |-> 0]
  /\ reservations = [s \in Sessions |-> NoReservation]
  /\ proc = [p \in Procs |->
               IF p \in DOMAIN openings
               THEN [IdleProc("none") EXCEPT !.pc = "apre", !.op = p, !.caller = "direct"]
               ELSE IdleProc("none")]
  /\ calls = 0

NextConcurrent ==
  \/ \E p \in Procs : HealthStep(p)
  \/ \E p \in Procs : AssignStep(p)
  \/ \E pack \in Packs : CacheExpire(pack)

SpecConcurrent == InitConcurrent /\ [][NextConcurrent]_vars

\* the same two calls with lock records that can expire under their holder
NextExpiring ==
  \/ NextConcurrent
  \/ \E k \in LockKeys : LockExpire(k)

SpecExpiring == InitConcurrent /\ [][NextExpiring]_vars

\* ... and every handler that can take a step eventually takes one (the
\* event loop runs every continuation whose await has settled)
SpecExpiringFair ==
  SpecExpiring /\ \A p \in Procs : WF_vars(AssignStep(p) \/ HealthStep(p))

\* the same two calls, either of which can die while holding the lock; the
\* store removes a record once its TTL has run out
NextCrash ==
  \/ NextExpiring
  \/ \E p \in Procs : Crash(p)

SpecCrash ==
  /\ InitConcurrent
  /\ [][NextCrash]_vars
  /\ \A p \in Procs : WF_vars(AssignStep(p) \/ HealthStep(p))
  /\ \A k \in LockKeys : WF_vars(LockExpire(k))

\* ------------------------------------------------- the opening's life cycle
\* Two PENDING openings, as the Stripe checkout creates them, and the entry
\* points and webhook events that move an opening.
InitOpening ==
  /\ maxSupply = SeedMaxSupply
  /\ packConfig = SeedConfig
  /\ itemStatus = [i \in Items |-> "AVAILABLE"]
  /\ soldCount = [p \in Packs |-> 0]
  /\ packStatus = [p \in Packs |-> "ACTIVE"]
  /\ openings = << [pack |-> "p2", status |-> "PENDING"],
                   [pack |-> "p2", status |-> "PENDING"] >>
  /\ assignments = << >>
  /\ holdings = << >>
  /\ balance = InitialBalance
  /\ cache = [p \in Packs |-> NoHealth]
  /\ locks = [k \in LockKeys |-> 0]
  /\ reservations = [s \in Sessions |-> NoReservation]
  /\ proc = [p \in Procs |-> IdleProc("none")]
  /\ calls = OpeningCalls

OpeningEntry(p, o) ==
  \/ AssignCall(p, o)
  \/ HandlePaymentConfirmed(p, o)
  \/ HandlePaymentFailed(p, o)
  \/ MarkOpeningRevealed(p, o)
  \/ HandleCheckoutCompleted(p, o)
  \/ HandleCheckoutExpired(p, o)

WebhookStep(p) ==
  \/ WebhookConfirm(p)
  \/ WebhookMarkFailed(p)
  \/ WebhookExpire(p)

NextOpening ==
  \/ \E p \in Procs : HealthStep(p)
  \/ \E p \in Procs : AssignStep(p)
  \/ \E p \in Procs : \E o \in DOMAIN openings : OpeningEntry(p, o)
  \/ \E p \in Procs : WebhookStep(p)
  \/ \E pack \in Packs : CacheExpire(pack)

SpecOpening == InitOpening /\ [][NextOpening]_vars

\* --------------------------------------------- one event, delivered again
\* One PENDING opening of a Stripe checkout, and checkout.session.completed
\* for its session delivered more than once, one after the other or at once.
InitWebhook ==
  /\ maxSupply = SeedMaxSupply
  /\ packConfig = SeedConfig
  /\ itemStatus = [i \in Items |-> "AVAILABLE"]
  /\ soldCount = [p \in Packs |-> 0]
  /\ packStatus = [p \in Packs |-> "ACTIVE"]
  /\ openings = << [pack |-> "p1", status |-> "PENDING"] >>
  /\ assignments = << >>
  /\ holdings = << >>
  /\ balance = InitialBalance
  /\ cache = [p \in Packs |-> NoHealth]
  /\ locks = [k \in LockKeys |-> 0]
  /\ reservations = [s \in Sessions |-> NoReservation]
  /\ proc = [p \in Procs |-> IdleProc("none")]
  /\ calls = WebhookDeliveries

NextWebhook ==
  \/ \E p \in Procs : \E o \in DOMAIN openings : HandleCheckoutCompleted(p, o)
  \/ \E p \in Procs : WebhookConfirm(p)
  \/ \E p \in Procs : WebhookMarkFailed(p)
  \/ \E p \in Procs : HealthStep(p)
  \/ \E p \in Procs : AssignStep(p)
  \/ \E pack \in Packs : CacheExpire(pack)

SpecWebhook == InitWebhook /\ [][NextWebhook]_vars

\* ------------------------------------------------ multi-quantity checkouts
MultiRun(p) ==
  \/ MultiPreCheck(p)
  \/ MultiCreate(p)

NextMulti ==
  \/ \E p \in Procs : \E pack \in Packs : \E q \in 1..MaxQuantity : MultiStart(p, pack, q)
  \/ \E p \in Procs : MultiRun(p)
  \/ \E p \in Procs : HealthStep(p)
  \/ \E p \in Procs : AssignStep(p)
  \/ \E pack \in Packs : CacheExpire(pack)

\* every handler under way keeps running
SpecMulti ==
  /\ Init
  /\ [][NextMulti]_vars
  /\ \A p \in Procs : WF_vars(MultiRun(p) \/ AssignStep(p) \/ HealthStep(p))

\* ------------------------------------------- checkouts of one user at once
\* The user holds any balance up to InitialBalance and sends checkout
\* requests, single or multi-quantity, that may overlap.
InitBalance ==
  /\ maxSupply = SeedMaxSupply
  /\ packConfig = SeedConfig
  /\ itemStatus = [i \in Items |-> "AVAILABLE"]
  /\ soldCount = [p \in Packs |-> 0]
  /\ packStatus = [p \in Packs |-> "ACTIVE"]
  /\ openings = << >>
  /\ assignments = << >>
  /\ holdings = << >>
  /\ balance \in 0..InitialBalance
  /\ cache = [p \in Packs |-> NoHealth]
  /\ locks = [k \in LockKeys |-> 0]
  /\ reservations = [s \in Sessions |-> NoReservation]
  /\ proc = [p \in Procs |-> IdleProc("none")]
  /\ calls = 0

NextBalance ==
  \/ \E p \in Procs : CheckoutStep(p)
  \/ \E p \in Procs : \E pack \in Packs : \E q \in 1..MaxQuantity : MultiStart(p, pack, q)
  \/ \E p \in Procs : MultiRun(p)
  \/ \E p \in Procs : HealthStep(p)
  \/ \E p \in Procs : AssignStep(p)

SpecBalance == InitBalance /\ [][NextBalance]_vars

\* ------------------------------------------- the health calculator alone
\* calculatePackHealth(pack) as one call on a ledger nobody writes: the cached
\* value if there is one, else the value computed from the pack row and the
\* item counts, which is cached (unless the pack has no config) and returned.
HealthProbe(p, pack) ==
  /\ At(p, "idle")
  /\ LET health == IF cache[pack] # NoHealth THEN cache[pack]
                   ELSE PackHealth(pack, soldCount[pack], itemStatus)
     IN /\ cache' = IF HasConfig(pack) THEN [cache EXCEPT ![pack] = health] ELSE cache
        /\ proc' = [proc EXCEPT ![p] =
                      [IdleProc("health") EXCEPT !.pk = pack, !.hres = health]]
  /\ UNCHANGED << ledger, locks, reservations, calls >>

\* the inputs: any maxSupply (null, 0 and up), any soldCount, any item statuses
\* no PackConfig, or the seeded one with any minCount
ConfigInputs(p) == {NoConfig} \cup {ConfigWith(p, m) : m \in 1..MaxMinCountInput}

InitHealth ==
  /\ maxSupply \in [Packs -> {NULL} \cup 0..MaxSupplyInput]
  /\ packConfig \in {c \in [Packs -> UNION {ConfigInputs(p) : p \in Packs}] :
                       \A p \in Packs : c[p] \in ConfigInputs(p)}
  /\ itemStatus \in [Items -> {"AVAILABLE", "ASSIGNED"}]
  /\ soldCount \in [Packs -> 0..MaxSoldInput]
  /\ packStatus = [p \in Packs |-> "ACTIVE"]
  /\ openings = << >>
  /\ assignments = << >>
  /\ holdings = << >>
  /\ balance = InitialBalance
  /\ cache = [p \in Packs |-> NoHealth]
  /\ locks = [k \in LockKeys |-> 0]
  /\ reservations = [s \in Sessions |-> NoReservation]
  /\ proc = [p \in Procs |-> IdleProc("none")]
  /\ calls = 0

NextHealth ==
  \/ \E p \in Procs : \E pack \in Packs : HealthProbe(p, pack)
  \/ \E pack \in Packs : CacheExpire(pack)

SpecHealth == InitHealth /\ [][NextHealth]_vars

\* ------------------------------------------------- packs of every status
\* PackStatus values a pack row can hold
PackStatuses == {"ACTIVE", "PAUSED", "OUT_OF_STOCK"}

\* Each pack in any status, the first limited or not, and a PROCESSING
\* opening of each with an assignItemToOpening call under way (the engine
\* does not look at the pack's status).
InitStatus ==
  /\ maxSupply \in {m \in [Packs -> {NULL, MaxSupplyP1}] : m["p2"] = NULL}
  /\ packConfig = SeedConfig
  /\ itemStatus = [i \in Items |-> "AVAILABLE"]
  /\ soldCount = [p \in Packs |-> 0]
  /\ packStatus \in [Packs -> PackStatuses]
  /\ openings = << [pack |-> "p1", status |-> "PROCESSING"],
                   [pack |-> "p2", status |-> "PROCESSING"] >>
  /\ assignments = << >>
  /\ holdings = << >>
  /\ balance = InitialBalance
  /\ cache = [p \in Packs |-> NoHealth]
  /\ locks = [k \in LockKeys |-> 0]
  /\ reservations = [s \in Sessions |-> NoReservation]
  /\ proc = [p \in Procs |->
               IF p \in DOMAIN openings
               THEN [IdleProc("none") EXCEPT !.pc = "apre", !.op = p, !.caller = "direct"]
               ELSE IdleProc("none")]
  /\ calls = 0

SpecStatus == InitStatus /\ [][NextConcurrent]_vars

\* ---------------------------------------------- a pack without PackConfig
\* Pack p2 has no config, with any maxSupply, soldCount and item statuses;
\* a PROCESSING opening of each pack has an assignItemToOpening call under
\* way, and the health is asked for as well.
InitNoConfig ==
  /\ maxSupply \in {m \in [Packs -> {NULL} \cup 0..MaxSupplyInput] : m["p1"] = MaxSupplyP1}
  /\ packConfig = [SeedConfig EXCEPT !["p2"] = NoConfig]
  /\ itemStatus \in [Items -> {"AVAILABLE", "ASSIGNED"}]
  /\ soldCount \in {c \in [Packs -> 0..MaxSoldInput] : c["p1"] = 0}
  /\ packStatus = [p \in Packs |-> "ACTIVE"]
  /\ openings = << [pack |-> "p2", status |-> "PROCESSING"],
                   [pack |-> "p1", status |-> "PROCESSING"] >>
  /\ assignments = << >>
  /\ holdings = << >>
  /\ balance = InitialBalance
  /\ cache = [p \in Packs |-> NoHealth]
  /\ locks = [k \in LockKeys |-> 0]
  /\ reservations = [s \in Sessions |-> NoReservation]
  /\ proc = [p \in Procs |->
               IF p \in DOMAIN openings
               THEN [IdleProc("none") EXCEPT !.pc = "apre", !.op = p, !.caller = "direct"]
               ELSE IdleProc("none")]
  /\ calls = 0

NextNoConfig ==
  \/ \E p \in Procs : HealthStep(p)
  \/ \E p \in Procs : AssignStep(p)
  \/ \E p \in Procs : \E pack \in Packs : HealthProbe(p, pack)
  \/ \E pack \in Packs : CacheExpire(pack)

SpecNoConfig == InitNoConfig /\ [][NextNoConfig]_vars

\* ------------------------------------------- reservations and assignments
\* A PROCESSING opening of each pack, and calls of reserveItemForCheckout,
\* releaseReservation and assignItemToOpening in any order and overlap; a
\* reservation record can run out.
InitReserve ==
  /\ maxSupply = SeedMaxSupply
  /\ packConfig = SeedConfig
  /\ itemStatus = [i \in Items |-> "AVAILABLE"]
  /\ soldCount = [p \in Packs |-> 0]
  /\ packStatus = [p \in Packs |-> "ACTIVE"]
  /\ openings = << [pack |-> "p1", status |-> "PROCESSING"],
                   [pack |-> "p2", status |-> "PROCESSING"] >>
  /\ assignments = << >>
  /\ holdings = << >>
  /\ balance = InitialBalance
  /\ cache = [p \in Packs |-> NoHealth]
  /\ locks = [k \in LockKeys |-> 0]
  /\ reservations = [s \in Sessions |-> NoReservation]
  /\ proc = [p \in Procs |-> IdleProc("none")]
  /\ calls = ReserveCalls

NextReserve ==
  \/ \E p \in Procs : \E pack \in Packs : \E sn \in Sessions : ReserveCall(p, pack, sn)
  \/ \E p \in Procs : \E sn \in Sessions : ReleaseCall(p, sn)
  \/ \E p \in Procs : \E o \in DOMAIN openings : AssignCall(p, o)
  \/ \E p \in Procs : ReserveStep(p)
  \/ \E p \in Procs : ReleaseStep(p)
  \/ \E p \in Procs : HealthStep(p)
  \/ \E p \in Procs : AssignStep(p)
  \/ \E sn \in Sessions : ReservationExpire(sn)

SpecReserve == InitReserve /\ [][NextReserve]_vars

\* ------------------------------------------------------------ the selector
\* selectItemFromPool(pack, config) as one call on a ledger nobody writes: the
\* available pool is read and grouped, the active weights are summed, the
\* roll is drawn and walked, and an item of the tier is drawn.
SelectProbe(p, pack) ==
  /\ At(p, "idle")
  /\ LET avail == AvailablePool(pack, itemStatus)
         active == ActiveWeights(pack, itemStatus)
         total == SumWeights(active)
     IN IF ~HasConfig(pack)
        THEN proc' = [proc EXCEPT ![p] = [IdleProc("noconfig") EXCEPT !.pk = pack]]
        ELSE IF avail = {}
        THEN proc' = [proc EXCEPT ![p] = [IdleProc("null") EXCEPT !.pk = pack]]
        ELSE IF SelectFallback(total, active)
        THEN \E i \in avail :
               proc' = [proc EXCEPT ![p] =
                          [IdleProc("fallback") EXCEPT !.pk = pack, !.sel = i]]
        ELSE \E r \in Rolls(total) :
               LET t == TierWalk(active, r, 0)
                   tierItems == ItemsByTier(pack, t, itemStatus)
               IN \E i \in (IF tierItems = {} THEN avail ELSE tierItems) :
                    proc' = [proc EXCEPT ![p] =
                               [IdleProc("selected") EXCEPT !.pk = pack, !.sel = i,
                                                            !.roll = r, !.tier = t]]
  /\ UNCHANGED << ledger, cache, locks, reservations, calls >>

\* ItemStatus
ItemStatuses == {"AVAILABLE", "RESERVED", "ASSIGNED", "SHIPPED"}

\* tierWeights of a config: no row, one row, or a row for each tier in either
\* order, with integer weights from 0
WeightInputs ==
  {<< >>}
    \cup {<< [tierId |-> t, weight |-> w] >> : t \in Tiers, w \in 0..MaxWeightInput}
    \cup {ws \in {<< [tierId |-> t1, weight |-> w1], [tierId |-> t2, weight |-> w2] >> :
                    t1 \in Tiers, t2 \in Tiers, w1 \in 0..MaxWeightInput,
                    w2 \in 0..MaxWeightInput} : ws[1].tierId # ws[2].tierId}

\* The inputs of the selector: items in any status, the first pack with any
\* tier weights, the second with the seeded ones.
InitSelect ==
  /\ maxSupply = SeedMaxSupply
  /\ packConfig \in {[SeedConfig EXCEPT !["p1"].tierWeights = ws] : ws \in WeightInputs}
  /\ itemStatus \in [Items -> ItemStatuses]
  /\ soldCount = [p \in Packs |-> 0]
  /\ packStatus = [p \in Packs |-> "ACTIVE"]
  /\ openings = << >>
  /\ assignments = << >>
  /\ holdings = << >>
  /\ balance = InitialBalance
  /\ cache = [p \in Packs |-> NoHealth]
  /\ locks = [k \in LockKeys |-> 0]
  /\ reservations = [s \in Sessions |-> NoReservation]
  /\ proc = [p \in Procs |-> IdleProc("none")]
  /\ calls = 0

NextSelect == \E p \in Procs : \E pack \in Packs : SelectProbe(p, pack)

SpecSelect == InitSelect /\ [][NextSelect]_vars

\* ------------------------------------------------- reserve, then release
\* Items in any status, no reservation record, and one reserve-and-release
\* after the other.
InitReservePair ==
  /\ maxSupply = SeedMaxSupply
  /\ packConfig = SeedConfig
  /\ itemStatus \in [Items -> {"AVAILABLE", "RESERVED", "ASSIGNED"}]
  /\ soldCount = [p \in Packs |-> 0]
  /\ packStatus = [p \in Packs |-> "ACTIVE"]
  /\ openings = << >>
  /\ assignments = << >>
  /\ holdings = << >>
  /\ balance = InitialBalance
  /\ cache = [p \in Packs |-> NoHealth]
  /\ locks = [k \in LockKeys |-> 0]
  /\ reservations = [s \in Sessions |-> NoReservation]
  /\ proc = [p \in Procs |-> IdleProc("none")]
  /\ calls = ReserveCalls

NextReservePair ==
  \/ \E p \in Procs : \E pack \in Packs : \E sn \in Sessions : PairCall(p, pack, sn)
  \/ \E p \in Procs : ReserveStep(p)
  \/ \E p \in Procs : ReleaseStep(p)

SpecReservePair == InitReservePair /\ [][NextReservePair]_vars

\* ------------------------------------------------ assignments and buybacks
\* The unlimited pack has sold its one common item to the first opening; two
\* more paid openings wait; the holding can be sold back and the item sold
\* again.
InitBuyback ==
  /\ maxSupply = SeedMaxSupply
  /\ packConfig = SeedConfig
  /\ itemStatus = [i \in Items |-> IF i = "i3" THEN "ASSIGNED" ELSE "AVAILABLE"]
  /\ soldCount = [p \in Packs |-> IF p = "p2" THEN 1 ELSE 0]
  /\ packStatus = [p \in Packs |-> IF p = "p2" THEN "OUT_OF_STOCK" ELSE "ACTIVE"]
  /\ openings = << [pack |-> "p2", status |-> "COMPLETED"],
                   [pack |-> "p2", status |-> "PROCESSING"],
                   [pack |-> "p2", status |-> "PROCESSING"] >>
  /\ assignments = << [opening |-> 1, item |-> "i3"] >>
  /\ holdings = << [assignment |-> 1, item |-> "i3", status |-> "HOLDING"] >>
  /\ balance = InitialBalance
  /\ cache = [p \in Packs |-> NoHealth]
  /\ locks = [k \in LockKeys |-> 0]
  /\ reservations = [s \in Sessions |-> NoReservation]
  /\ proc = [p \in Procs |-> IdleProc("none")]
  /\ calls = BuybackCalls

BuybackStep(p) ==
  \/ \E h \in DOMAIN holdings : BuybackStart(p, h)
  \/ BuybackCommit(p)

NextBuyback ==
  \/ \E p \in Procs : HealthStep(p)
  \/ \E p \in Procs : AssignStep(p)
  \/ \E p \in Procs : \E o \in DOMAIN openings : AssignCall(p, o)
  \/ \E p \in Procs : BuybackStep(p)
  \/ \E pack \in Packs : CacheExpire(pack)

SpecBuyback == InitBuyback /\ [][NextBuyback]_vars

\* ================================================================== claims
PackOfAssignment(a) == openings[assignments[a].opening].pack

AssignmentsOfPack(pack) ==
  {a \in DOMAIN assignments : PackOfAssignment(a) = pack}

\* C1: after any interleaving of assignItemToOpening executions, on one pack
\* or on packs whose pools share items, every Item is referenced by at most
\* one Assignment.
C1_ItemAtMostOneAssignment ==
  \A a, b \in DOMAIN assignments :
    a # b => assignments[a].item # assignments[b].item

C3_FailsBeforeLock ==
  [][\A p \in Procs :
       (/\ At(p, "apre")
        /\ proc'[p] # proc[p]
        /\ \/ ~OpeningExists(proc[p].op)
           \/ openings[proc[p].op].status # "PROCESSING"
           \/ HasAssignment(proc[p].op))
       => /\ proc'[p].pc # "acq"
          /\ UNCHANGED << itemStatus, assignments, soldCount >>]_vars

C4_FiveWrites ==
  \E o \in DOMAIN openings, i \in Items :
    /\ assignments' = Append(assignments, [opening |-> o, item |-> i])
    /\ holdings' = Append(holdings, [assignment |-> Len(assignments) + 1,
                                     item |-> i, status |-> "HOLDING"])
    /\ itemStatus' = [itemStatus EXCEPT ![i] = "ASSIGNED"]
    /\ openings' = [openings EXCEPT ![o].status = "COMPLETED"]
    /\ soldCount' = [soldCount EXCEPT ![openings[o].pack] = @ + 1]

C4_AnyWrite ==
  \/ assignments' # assignments
  \/ Len(holdings') # Len(holdings)
  \/ soldCount' # soldCount
  \/ \E i \in Items : itemStatus[i] # "ASSIGNED" /\ itemStatus'[i] = "ASSIGNED"
  \/ \E o \in DOMAIN openings :
       openings[o].status # "COMPLETED" /\ openings'[o].status = "COMPLETED"

C4_FailedInUnit(p) ==
  /\ proc[p].pc \in {"txr", "txw"}
  /\ proc'[p].pc = "rel"

\* C4: the transactional unit is all-or-nothing: a step that makes any of
\* the five writes of an assignment makes all five, and a failure inside the
\* unit leaves the ledger as it was.
C4_AllOrNothing ==
  [][/\ C4_AnyWrite => C4_FiveWrites
     /\ \A p \in Procs : C4_FailedInUnit(p) => UNCHANGED ledger]_vars

\* one assignment is committed and another attempt failed inside its unit
C4_Witness ==
  /\ Len(assignments) >= 1
  /\ \E p \in Procs : proc[p].out \in {"gone", "unique"}

\* C5: the allow/deny decision taken inside the pack lock equals canSellOne
\* of the live ledger: a cached health that differs from the ledger never
\* decides.
C5_DecisionFromLiveCounts ==
  [][\A p \in Procs :
       (At(p, "hget") /\ proc[p].ret = "chk" /\ proc'[p].pc = "chk")
       => proc'[p].hres.canSellOne
            = CanSellOne(proc[p].pk, soldCount[proc[p].pk], itemStatus)]_vars

\* C6: soldCount <= maxSupply for every pack with a maxSupply, in every
\* reachable state.
C6_NoOversell ==
  \A pack \in Packs :
    Truthy(MaxSupply(pack)) => soldCount[pack] <= MaxSupply(pack)

C8_ReReadPreventsDoubleBinding ==
  \A i \in Items : Cardinality({a \in DOMAIN assignments : assignments[a].item = i}) <= 1

\* C9: no Item has two Assignments whose Holdings are both not SOLD, after
\* any assignments and buybacks.
C9_OneLiveAssignmentPerItem ==
  \A g, h \in DOMAIN holdings :
    (g # h /\ holdings[g].item = holdings[h].item)
    => (holdings[g].status = "SOLD" \/ holdings[h].status = "SOLD")

C10_CountsAssignments ==
  \A pack \in Packs : soldCount[pack] = Cardinality(AssignmentsOfPack(pack))

C10_StepOfOne ==
  \A pack \in Packs :
    \/ soldCount'[pack] = soldCount[pack]
    \/ /\ soldCount'[pack] = soldCount[pack] + 1
       /\ Len(assignments') = Len(assignments) + 1
       /\ openings[assignments'[Len(assignments')].opening].pack = pack
       /\ \A q \in Packs \ {pack} : soldCount'[q] = soldCount[q]

\* C10: soldCount changes only by +1, together with the creation of exactly
\* one Assignment for an opening of that pack, and so always equals the
\* number of Assignments of the pack.
C10_SoldCountIsAssignmentCount ==
  [](C10_CountsAssignments) /\ [][C10_StepOfOne]_vars

C10_Witness ==
  soldCount["p1"] >= 1 /\ soldCount["p2"] >= 1

\* C11: an acquire succeeds only if no lock record exists for the key: a
\* record passes from one lock instance to another only through absence
\* (release or expiry), and a failed acquire changes neither the records nor
\* the ledger nor the cache.
C11_AcquireOnlyIfAbsent ==
  [][/\ \A k \in LockKeys : locks[k] # 0 => locks'[k] \in {locks[k], 0}
     /\ \A p \in Procs :
          (At(p, "acq") /\ proc'[p] # proc[p]) =>
            IF locks[AssignLockKey(proc[p].pk)] = 0
            THEN locks'[AssignLockKey(proc[p].pk)] = p /\ InCritical(p)'
            ELSE UNCHANGED << locks, ledger, cache >> /\ ~InCritical(p)']_vars

\* an acquire has failed while another instance holds the key
C11_Witness ==
  \E p, q \in Procs :
    /\ p # q
    /\ At(p, "acq")
    /\ proc[p].retries >= 1
    /\ InCritical(q)
    /\ locks[AssignLockKey(proc[p].pk)] = q

\* C12: release deletes the lock record only when its value is this
\* instance's: a holder whose lock expired and was re-acquired by another
\* instance gets false and the other instance's record stays.
C12_ReleaseOnlyOwnRecord ==
  [][\A p \in Procs :
       (At(p, "rel") /\ proc'[p] # proc[p]) =>
         LET k == AssignLockKey(proc[p].pk) IN
           /\ \A j \in LockKeys \ {k} : locks'[j] = locks[j]
           /\ IF locks[k] = p
              THEN locks'[k] = 0 /\ proc'[p].relres = "true"
              ELSE locks'[k] = locks[k] /\ proc'[p].relres = "false"]_vars

\* a holder whose record expired has released (false) while the instance
\* that re-acquired the key still holds it
C12_Witness ==
  \E p, q \in Procs :
    /\ p # q
    /\ proc[p].relres = "false"
    /\ ~InCritical(p)
    /\ InCritical(q)
    /\ locks[AssignLockKey(proc[q].pk)] = q

\* C13: whenever withLock acquired the lock, release is called before it
\* returns or throws, whatever fn did; afterwards the key is not held by
\* this caller's instance and fn's result or error is propagated unchanged.
C13_ReleaseOnEveryExit ==
  /\ [](\A p \in Procs : \A k \in LockKeys : locks[k] = p => InCritical(p))
  /\ [][\A p \in Procs :
          (InCritical(p) /\ ~InCritical(p)') =>
            /\ At(p, "rel")
            /\ proc'[p].relres # "none"
            /\ proc'[p].out = proc[p].out
            /\ locks'[AssignLockKey(proc[p].pk)] # p]_vars

\* fn raised an error, the lock was released and the error reached the caller
C13_Witness ==
  \E p \in Procs :
    /\ At(p, "idle")
    /\ proc[p].out \in {"stockout", "gone", "emptypool", "unique"}
    /\ proc[p].relres = "true"
    /\ \A k \in LockKeys : locks[k] # p

\* C14: withLock terminates when fn does: at most maxRetries acquire
\* attempts, a wait of retryDelayMs * attempt after a failed attempt that is
\* not the last, fn never run without the lock acquired, and after
\* maxRetries failed attempts an error naming the key and maxRetries.
C14_BoundedRetries ==
  /\ [](\A p \in Procs : proc[p].retries < AssignMaxRetries)
  /\ [][\A p \in Procs :
          /\ (At(p, "acq") /\ proc'[p] # proc[p]
               /\ locks[AssignLockKey(proc[p].pk)] # 0) =>
                IF proc[p].retries + 1 < AssignMaxRetries
                THEN /\ At(p, "acq")'
                     /\ proc'[p].retries = proc[p].retries + 1
                     /\ proc'[p].delay = AssignRetryDelayMs * proc'[p].retries
                ELSE /\ proc'[p].out = "lockfail"
                     /\ proc'[p].err = << AssignLockKey(proc[p].pk), AssignMaxRetries >>
                     /\ ~At(p, "acq")' /\ ~InCritical(p)'
          /\ (~InCritical(p) /\ InCritical(p)') =>
                /\ At(p, "acq")
                /\ locks[AssignLockKey(proc[p].pk)] = 0
                /\ locks'[AssignLockKey(proc[p].pk)] = p]_vars
  /\ \A p \in Procs :
       (At(p, "acq") \/ InCritical(p)) ~> ~(At(p, "acq") \/ InCritical(p))

\* a call gave up after maxRetries failed attempts, with the error
C14_Witness ==
  \E p \in Procs :
    /\ At(p, "idle")
    /\ proc[p].out = "lockfail"
    /\ proc[p].err = << AssignLockKey("p2"), AssignMaxRetries >>

\* C15: a lock whose holder died without releasing does not block the key
\* for ever: the record is removed when its TTL has run out, and an acquire
\* on a key without a record succeeds.
C15_CrashedHolderExpires ==
  /\ \A p \in Procs : \A k \in LockKeys :
       (proc[p].pc = "crashed" /\ locks[k] = p) ~> (locks[k] # p)
  /\ [][\A p \in Procs :
          (At(p, "acq") /\ proc'[p] # proc[p]
           /\ locks[AssignLockKey(proc[p].pk)] = 0)
          => locks'[AssignLockKey(proc[p].pk)] = p /\ InCritical(p)']_vars

\* the holder died with its record in place, and another instance has
\* acquired the key since
C15_Witness ==
  \E p, q \in Procs :
    /\ p # q
    /\ proc[p].pc = "crashed"
    /\ proc[p].pk = proc[q].pk
    /\ InCritical(q)
    /\ locks[AssignLockKey(proc[q].pk)] = q

\* C16: the lock of assignItemToOpening is keyed by pack id only: while no
\* record expires, executions for the same pack never overlap their
\* critical sections, and an acquire fails only against an execution for
\* the same pack, never because of the lock held for a different pack.
C16_SerializedPerPack ==
  /\ [](\A p, q \in Procs :
         (p # q /\ InCritical(p) /\ InCritical(q)) => proc[p].pk # proc[q].pk)
  /\ [][\A p \in Procs :
          (At(p, "acq") /\ proc'[p] # proc[p] /\ ~InCritical(p)')
          => \E q \in Procs \ {p} : InCritical(q) /\ proc[q].pk = proc[p].pk]_vars

\* two executions for different packs are inside their critical sections
\* at the same time
C16_Witness ==
  \E p, q \in Procs :
    /\ InCritical(p) /\ proc[p].pk = "p1"
    /\ InCritical(q) /\ proc[q].pk = "p2"

\* the edges of the opening state machine
OpeningEdges ==
  { << "PENDING", "PROCESSING" >>, << "PROCESSING", "COMPLETED" >>,
    << "COMPLETED", "REVEALED" >>, << "PENDING", "FAILED" >>,
    << "PROCESSING", "FAILED" >> }

\* C17: an Opening's status changes only along PENDING->PROCESSING,
\* PROCESSING->COMPLETED, COMPLETED->REVEALED, PENDING->FAILED and
\* PROCESSING->FAILED, under any calls of handlePaymentConfirmed,
\* handlePaymentFailed, markOpeningRevealed and assignItemToOpening.
C17_OnlyStateMachineEdges ==
  [][\A o \in DOMAIN openings :
       openings'[o].status # openings[o].status
       => << openings[o].status, openings'[o].status >> \in OpeningEdges]_vars

\* C18: every Opening that enters PROCESSING eventually reaches COMPLETED
\* or FAILED, whatever way the assignment attempt ends.
C18_ProcessingResolves ==
  \A o \in OpeningIds :
    (OpeningExists(o) /\ openings[o].status = "PROCESSING")
    ~> (OpeningExists(o) /\ openings[o].status \in {"COMPLETED", "FAILED"})

\* calculatePackHealth has returned to p
HealthReturned(p) == proc[p].out = "health"

\* the stock a guarantee needs for the packs still to be sold: remaining *
\* minCount with remaining = maxSupply - soldCount, and minCount alone for a
\* pack without maxSupply
C19_Required(pack, g) ==
  IF maxSupply[pack] = NULL THEN g.minCount
  ELSE (maxSupply[pack] - soldCount[pack]) * g.minCount

C19_FallsShort(pack, g) ==
  AvailableIn(pack, g.tierId, itemStatus) < C19_Required(pack, g)

\* C19: canSellOne is true only if every guarantee has available >= remaining
\* * minCount; a guarantee that falls short makes canSellOne false and the
\* status OUT_OF_STOCK and adds a warning stating the available and the
\* required count.
C19_GuaranteesCoverRemaining ==
  \A p \in Procs :
    HealthReturned(p) =>
      LET pack == proc[p].pk
          h == proc[p].hres
      IN /\ h.canSellOne =>
              \A k \in DOMAIN Guarantees(pack) : ~C19_FallsShort(pack, Guarantees(pack)[k])
         /\ \A k \in DOMAIN Guarantees(pack) :
              C19_FallsShort(pack, Guarantees(pack)[k]) =>
                /\ ~h.canSellOne
                /\ h.status = "OUT_OF_STOCK"
                /\ [kind |-> "insufficient", tierId |-> Guarantees(pack)[k].tierId,
                    available |-> AvailableIn(pack, Guarantees(pack)[k].tierId, itemStatus),
                    required |-> C19_Required(pack, Guarantees(pack)[k])] \in h.warnings

\* a limited pack with two units left and one item of the guaranteed tier
\* has been reported unsellable with the warning
C19_Witness ==
  \E p \in Procs :
    /\ HealthReturned(p)
    /\ maxSupply[proc[p].pk] # NULL
    /\ maxSupply[proc[p].pk] - soldCount[proc[p].pk] = 2
    /\ \E k \in DOMAIN Guarantees(proc[p].pk) :
         /\ AvailableIn(proc[p].pk, Guarantees(proc[p].pk)[k].tierId, itemStatus) = 1
         /\ C19_FallsShort(proc[p].pk, Guarantees(proc[p].pk)[k])
    /\ ~proc[p].hres.canSellOne
    /\ \E w \in proc[p].hres.warnings : w.kind = "insufficient"

\* C20: for a non-null maxSupply (0 included) with maxSupply - soldCount = 0,
\* calculatePackHealth returns OUT_OF_STOCK and canSellOne false whatever the
\* item counts.
C20_SoldOutIsOutOfStock ==
  \A p \in Procs :
    (/\ HealthReturned(p)
     /\ maxSupply[proc[p].pk] # NULL
     /\ maxSupply[proc[p].pk] - soldCount[proc[p].pk] = 0)
    => (proc[p].hres.status = "OUT_OF_STOCK" /\ ~proc[p].hres.canSellOne)

\* calculatePackHealth has returned to p for a configured pack with
\* maxSupply = null
C21_UnlimitedReturned(p) ==
  /\ HealthReturned(p)
  /\ maxSupply[proc[p].pk] = NULL
  /\ HasConfig(proc[p].pk)

C22_SomeGuaranteeLow(p) ==
  \E k \in DOMAIN Guarantees(proc[p].pk) :
    \E th \in proc[p].hres.tierHealth :
      /\ th.tierId = Guarantees(proc[p].pk)[k].tierId
      /\ th.required > 0
      /\ 5 * th.available <= th.required

\* C22: the health status is OUT_OF_STOCK exactly when canSellOne is false;
\* otherwise it is LOW_STOCK when some guaranteed tier has available/required
\* <= 20%, and SELLABLE in all remaining cases.
C22_StatusFollowsCanSellOne ==
  \A p \in Procs :
    HealthReturned(p) =>
      proc[p].hres.status =
        IF ~proc[p].hres.canSellOne THEN "OUT_OF_STOCK"
        ELSE IF C22_SomeGuaranteeLow(p) THEN "LOW_STOCK"
        ELSE "SELLABLE"

\* one pack has been reported OUT_OF_STOCK with a guaranteed tier at 0%, the
\* other SELLABLE
C22_Witness ==
  \E p, q \in Procs :
    /\ HealthReturned(p) /\ HealthReturned(q)
    /\ ~proc[p].hres.canSellOne /\ proc[p].hres.status = "OUT_OF_STOCK"
    /\ C22_SomeGuaranteeLow(p)
    /\ proc[q].hres.canSellOne /\ proc[q].hres.status = "SELLABLE"

\* the tiers of a pack with weight > 0 that no guarantee names
C23_SoftTiers(pack) ==
  {TierWeights(pack)[k].tierId :
     k \in {j \in DOMAIN TierWeights(pack) :
              /\ TierWeights(pack)[j].weight > 0
              /\ \A g \in DOMAIN Guarantees(pack) :
                   Guarantees(pack)[g].tierId # TierWeights(pack)[j].tierId}}

\* the item statuses with every pool item of tier t AVAILABLE
C23_Restocked(pack, t) ==
  [i \in Items |-> IF i \in Pool(pack) /\ TierOf(i) = t THEN "AVAILABLE" ELSE itemStatus[i]]

\* C23: a tier with weight > 0 that is not a guarantee and has no available
\* item never blocks the sale: it only adds a warning, and canSellOne and
\* status are the same as if that tier had items.
C23_EmptyWeightedTierOnlyWarns ==
  \A p \in Procs :
    (HealthReturned(p) /\ HasConfig(proc[p].pk)) =>
      \A t \in C23_SoftTiers(proc[p].pk) :
        AvailableIn(proc[p].pk, t, itemStatus) = 0 =>
          LET pack == proc[p].pk
              h == proc[p].hres
              full == PackHealth(pack, soldCount[pack], C23_Restocked(pack, t))
          IN /\ \E w \in h.warnings : w.kind = "empty_tier" /\ w.tierId = t
             /\ h.canSellOne = full.canSellOne
             /\ h.status = full.status

\* a pack whose weighted, unguaranteed tier is empty has been found sellable
C23_Witness ==
  \E p \in Procs :
    /\ HealthReturned(p)
    /\ HasConfig(proc[p].pk)
    /\ \E t \in C23_SoftTiers(proc[p].pk) : AvailableIn(proc[p].pk, t, itemStatus) = 0
    /\ proc[p].hres.canSellOne
    /\ proc[p].hres.status = "SELLABLE"

\* the pack has no PackConfig row
C24_Unconfigured(pack) == packConfig[pack] = NoConfig

\* C24: for a pack without a PackConfig, calculatePackHealth returns status
\* OUT_OF_STOCK, canSellOne = false and the warning "Pack has no
\* configuration", whatever the supply and item counts are; and no item can
\* be assigned from such a pack.
C24_NoConfigNeverSells ==
  /\ \A p \in Procs :
       (HealthReturned(p) /\ C24_Unconfigured(proc[p].pk)) =>
         /\ proc[p].hres.status = "OUT_OF_STOCK"
         /\ ~proc[p].hres.canSellOne
         /\ [kind |-> "no_configuration"] \in proc[p].hres.warnings
  /\ \A a \in DOMAIN assignments : ~C24_Unconfigured(PackOfAssignment(a))
  /\ \A o \in DOMAIN openings :
       C24_Unconfigured(openings[o].pack) => openings[o].status # "COMPLETED"

\* the call for the unconfigured pack's opening has been declined with
\* items available in its pool, and the pack's health has been returned
C24_Witness ==
  \E p, q \in Procs :
    /\ At(p, "idle") /\ proc[p].out = "stockout"
    /\ HealthReturned(q)
    /\ C24_Unconfigured(proc[q].pk)
    /\ AvailablePool(proc[q].pk, itemStatus) # {}
    /\ [kind |-> "no_configuration"] \in proc[q].hres.warnings

\* p is inside the lock at the re-check that declines, or on its way out
\* with the decline
C25_Declining(p) ==
  \/ At(p, "chk") /\ ~proc[p].hres.canSellOne
  \/ At(p, "rel") /\ proc[p].out = "stockout"

\* C25: when assignItemToOpening declines inside the lock because canSellPack
\* is false, it performs no ledger mutation: Item statuses, Assignments,
\* Holdings, the Opening's status and soldCount are unchanged, and the lock
\* is released.
C25_DeclineMutatesNothing ==
  [][\A p \in Procs :
       (C25_Declining(p) /\ proc'[p] # proc[p]) =>
         /\ UNCHANGED << itemStatus, assignments, holdings, openings, soldCount >>
         /\ At(p, "rel") =>
              /\ locks'[AssignLockKey(proc[p].pk)] # p
              /\ proc'[p].pc = "idle"]_vars

\* a call has been declined inside the lock and has released its lock; its
\* opening is PROCESSING without an Assignment
C25_Witness ==
  \E p \in Procs :
    /\ At(p, "idle")
    /\ proc[p].out = "stockout"
    /\ proc[p].relres = "true"
    /\ \E o \in DOMAIN openings : openings[o].status = "PROCESSING" /\ ~HasAssignment(o)

\* C26: whenever a purchase is declined for stock-out (at the checkout
\* pre-check or at the in-lock re-check of assignItemToOpening), the pack's
\* persisted status is demoted from ACTIVE to OUT_OF_STOCK.
C26_DeclineDemotes ==
  [][\A p \in Procs :
       (/\ \/ At(p, "pre") /\ ~proc[p].hres.canSellOne
           \/ At(p, "rel") /\ proc[p].out = "stockout"
        /\ proc'[p] # proc[p])
       => packStatus'[proc[p].pk] # "ACTIVE"]_vars

\* C27: updatePackStatusFromHealth is downgrade-only: its only possible write
\* is ACTIVE -> OUT_OF_STOCK, made exactly when the persisted status is ACTIVE
\* and canSellOne is false; it never changes a PAUSED or OUT_OF_STOCK pack and
\* no health or assignment operation ever sets a pack back to ACTIVE.
C27_DowngradeOnly ==
  [][/\ \A p \in Procs :
         (At(p, "upsw") /\ proc'[p] # proc[p]) =>
           packStatus' =
             IF packStatus[proc[p].pk] = "ACTIVE" /\ ~proc[p].hres.canSellOne
             THEN [packStatus EXCEPT ![proc[p].pk] = "OUT_OF_STOCK"]
             ELSE packStatus
     /\ \A pack \in Packs :
         packStatus'[pack] # packStatus[pack] =>
           packStatus[pack] = "ACTIVE" /\ packStatus'[pack] = "OUT_OF_STOCK"]_vars

\* updatePackStatusFromHealth has run for a PAUSED pack that cannot sell and
\* has left it PAUSED, while the other pack is OUT_OF_STOCK
C27_Witness ==
  \E p \in Procs :
    /\ At(p, "rel")
    /\ proc[p].out = "ok"
    /\ ~proc[p].hres.canSellOne
    /\ packStatus[proc[p].pk] = "PAUSED"
    /\ \E pack \in Packs : packStatus[pack] = "OUT_OF_STOCK"

\* C28: if a successful assignItemToOpening leaves an ACTIVE pack in a ledger
\* state where canSellOne is false (supply exhausted or a guarantee no longer
\* coverable), the pack's persisted status is OUT_OF_STOCK by the time the
\* lock is released, also when other callers read the pack's health
\* concurrently.
C28_DemotedByRelease ==
  [][\A p \in Procs :
       (/\ At(p, "rel")
        /\ proc[p].out = "ok"
        /\ proc'[p] # proc[p]
        /\ ~CanSellOne(proc[p].pk, soldCount[proc[p].pk], itemStatus))
       => packStatus'[proc[p].pk] # "ACTIVE"]_vars

\* the packs whose cached health the sale of item i by pack concerns
C29_Concerned(pack, i) == {q \in Packs : q = pack \/ i \in Pool(q)}

\* p is returning from a successful call whose commit is the only one so
\* far: the ledger the health reads has changed at that commit and nowhere
\* else, so a cached health that differs from the current one was computed
\* from the ledger as it was before the commit
C29_ReturningFromOnlyCommit(p) ==
  /\ At(p, "rel")
  /\ proc[p].out = "ok"
  /\ Len(assignments) = 1
  /\ assignments[1].opening = proc[p].op

\* C29: after the commit and before the lock is released, assignItemToOpening
\* invalidates the cached health of the sold pack and of every other pack
\* whose pool contains the consumed item, so that once it returns no such
\* pack has a cached health entry computed from ledger state preceding the
\* commit, even when other callers run calculatePackHealth concurrently.
C29_NoStaleHealthAfterReturn ==
  [][\A p \in Procs :
       (C29_ReturningFromOnlyCommit(p) /\ proc'[p] # proc[p]) =>
         \A q \in C29_Concerned(proc[p].pk, proc[p].sel) :
           \/ cache'[q] = NoHealth
           \/ cache'[q] = CalcHealth(q, soldCount[q], itemStatus)]_vars

\* the packs whose pool contains item i
C30_PacksHolding(i) == {q \in Packs : i \in Pool(q)}

\* C30: every operation that changes an Item's status (assignment,
\* reserveItemForCheckout, releaseReservation, buyback) invalidates the cached
\* health of every pack whose pool contains that Item before it finishes.
\* (The assignment finishes its invalidation at invalidatePackHealthForItem,
\* the buyback finishes at its transaction's commit.)
C30_StatusChangeInvalidates ==
  [][\A p \in Procs :
       ((At(p, "inv2") \/ At(p, "btx")) /\ proc'[p] # proc[p]) =>
         \A q \in C30_PacksHolding(proc[p].sel) : cache'[q] = NoHealth]_vars


\* Items an Assignment refers to.
C31_Bound == {assignments[a].item : a \in DOMAIN assignments}

C31_ReservationWrites(p) == ReserveUpdate(p) \/ ReleaseUpdate(p)

\* C31: under any interleaving of reserveItemForCheckout / releaseReservation
\* with assignItemToOpening, the reservation path never sets an Item bound by
\* an Assignment to RESERVED or back to AVAILABLE, and no Item is named by
\* the reservation records of two sessions at once.
C31_ReservationRespectsAssignment ==
  [][/\ \A p \in Procs : C31_ReservationWrites(p) => proc[p].sel \notin C31_Bound
     /\ \A s1, s2 \in Sessions :
          (s1 # s2 /\ reservations'[s1] # NoReservation)
            => reservations'[s1].item # reservations'[s2].item]_vars


\* The item has just been written RESERVED by a reserveItemForCheckout that
\* has yet to store its record.
C39_BeingRecorded(i) == \E p \in Procs : At(p, "rset") /\ proc[p].sel = i

\* C39: every RESERVED Item is referenced by a live reservation record (or
\* by the reserveItemForCheckout that is about to store one): no Item stays
\* RESERVED after its record has expired or has been overwritten by a second
\* reserveItemForCheckout of the same session.
C39_ReservedHasRecord ==
  \A i \in Items :
    itemStatus[i] = "RESERVED"
      => \/ \E sn \in Sessions : reservations[sn].item = i
         \/ C39_BeingRecorded(i)


\* The last step of a reserve-and-release of process p.
C32_PairEnds(p) == proc[p].caller = "pair" /\ ReleaseInvalidate(p)

\* C32: reserve(pack, session) followed by release(session), with nothing
\* else touching the item in between, leaves the Item AVAILABLE, the
\* session without a reservation record, and every tier's available count
\* of every pack at its value before the reserve.
C32_ReserveReleaseRestores ==
  [][\A p \in Procs :
       C32_PairEnds(p)
         => /\ itemStatus'[proc[p].sel] = "AVAILABLE"
            /\ reservations'[proc[p].sess] = NoReservation
            /\ \A pack \in Packs : \A t \in Tiers :
                 AvailableIn(pack, t, itemStatus') = AvailableIn(pack, t, proc[p].snap)]_vars

\* A reserve-and-release has run to its end: the reserve found an item and
\* the release has returned.
C32_Witness ==
  \E p \in Procs :
    /\ proc[p].out = "released"
    /\ \E i \in Items : itemStatus[i] = "AVAILABLE"


\* What a selectItemFromPool call of process p has returned.
C33_Returned(p) == proc[p].out \in {"null", "fallback", "selected"}

\* The AVAILABLE items of a pack's pool, as the ledger holds them.
C33_Available(pack) == {i \in Pool(pack) : itemStatus[i] = "AVAILABLE"}

\* The weights of the first k configured rows whose tier has an AVAILABLE
\* item of the pool, summed.
RECURSIVE C33_WeightTo(_, _)
C33_WeightTo(pack, k) ==
  IF k = 0 THEN 0
  ELSE LET w == packConfig[pack].tierWeights[k]
       IN C33_WeightTo(pack, k - 1)
            + (IF \E i \in C33_Available(pack) : TierOf(i) = w.tierId THEN w.weight ELSE 0)

C33_TotalWeight(pack) == C33_WeightTo(pack, Len(packConfig[pack].tierWeights))

\* C33: the selector returns an item whenever the pool has an AVAILABLE item
\* and returns none only when it has not; when the weights of the tiers that
\* have available items sum to 0 (no such tier has a weight, or all are 0)
\* every item of the available pool can be drawn, by the fallback.
C33_SelectorReturnsWhenAvailable ==
  \A pack \in Packs :
    /\ C33_Available(pack) # {} => SelectOutcomes(pack, itemStatus) # {}
    /\ C33_TotalWeight(pack) = 0 => SelectOutcomes(pack, itemStatus) = C33_Available(pack)
    /\ \A p \in Procs :
         (C33_Returned(p) /\ proc[p].pk = pack)
           => /\ proc[p].out = "null" <=> C33_Available(pack) = {}
              /\ proc[p].out = "fallback"
                   <=> (C33_Available(pack) # {} /\ C33_TotalWeight(pack) = 0)
              /\ proc[p].out # "null" => proc[p].sel \in C33_Available(pack)

\* The fallback has drawn an item of a tier whose configured weight is 0,
\* from a pool with more than one available item.
C33_Witness ==
  \E p \in Procs :
    /\ proc[p].out = "fallback"
    /\ Cardinality(C33_Available(proc[p].pk)) > 1
    /\ \E k \in DOMAIN packConfig[proc[p].pk].tierWeights :
         packConfig[proc[p].pk].tierWeights[k].tierId = TierOf(proc[p].sel)


\* The rows of a pack's tierWeights whose tier has an AVAILABLE item of the
\* pool, in the configured order.
C34_ActiveRows(pack) ==
  SelectSeq(packConfig[pack].tierWeights,
            LAMBDA w : \E i \in C33_Available(pack) : TierOf(i) = w.tierId)

\* The weights of the first k active rows, summed.
RECURSIVE C34_Cumulative(_, _)
C34_Cumulative(pack, k) ==
  IF k = 0 THEN 0 ELSE C34_Cumulative(pack, k - 1) + C34_ActiveRows(pack)[k].weight

\* The first active row whose cumulative weight exceeds r.
C34_FirstExceeding(pack, r) ==
  CHOOSE k \in 1..Len(C34_ActiveRows(pack)) :
    /\ C34_Cumulative(pack, k) > r
    /\ \A j \in 1..(k - 1) : C34_Cumulative(pack, j) <= r

\* C34: for integer weights and every roll r in [0, totalWeight), the tier
\* walk selects the first tier, in the configured order among the tiers that
\* have an available item, whose cumulative weight exceeds r; the number of
\* integer rolls mapped to a tier equals its weight, and a tier of weight 0
\* is never selected when totalWeight > 0.
C34_TierWalkFollowsWeights ==
  \A pack \in Packs :
    LET rows == C34_ActiveRows(pack)
        total == C34_Cumulative(pack, Len(rows))
    IN total > 0 =>
         /\ \A r \in 0..(total - 1) :
              TierWalk(ActiveWeights(pack, itemStatus), r, 0)
                = rows[C34_FirstExceeding(pack, r)].tierId
         /\ \A k \in 1..Len(rows) :
              Cardinality({r \in 0..(total - 1) :
                 TierWalk(ActiveWeights(pack, itemStatus), r, 0) = rows[k].tierId})
                = rows[k].weight
         /\ \A p \in Procs :
              (proc[p].out = "selected" /\ proc[p].pk = pack)
                => /\ proc[p].roll \in 0..(total - 1)
                   /\ proc[p].tier = rows[C34_FirstExceeding(pack, proc[p].roll)].tierId
                   /\ \A k \in 1..Len(rows) :
                        rows[k].tierId = proc[p].tier => rows[k].weight > 0

\* A roll has passed over a first tier of positive weight and selected the
\* second.
C34_Witness ==
  \E p \in Procs :
    /\ proc[p].out = "selected"
    /\ Len(C34_ActiveRows(proc[p].pk)) = 2
    /\ C34_ActiveRows(proc[p].pk)[1].weight > 0
    /\ proc[p].tier = C34_ActiveRows(proc[p].pk)[2].tierId


\* selectItemFromPool has returned an item to process p.
C35_ReturnedItem(p) == proc[p].out \in {"fallback", "selected"}

\* C35: the item the selector returns belongs to the pack's pool and is
\* AVAILABLE in the ledger the pool was read from; a tier without an
\* available item takes no part in the roll (the roll stays below the summed
\* weights of the tiers that have one, and the tier it selects has one);
\* RESERVED, ASSIGNED and SHIPPED items and items outside the pool are never
\* chosen.
C35_SelectsAvailablePoolItem ==
  \A p \in Procs :
    C35_ReturnedItem(p)
      => /\ proc[p].sel \in Pool(proc[p].pk)
         /\ itemStatus[proc[p].sel] = "AVAILABLE"
         /\ proc[p].out = "selected"
              => /\ proc[p].roll < C33_TotalWeight(proc[p].pk)
                 /\ TierOf(proc[p].sel) = proc[p].tier
                 /\ \E k \in DOMAIN packConfig[proc[p].pk].tierWeights :
                      packConfig[proc[p].pk].tierWeights[k].tierId = proc[p].tier

\* An item was selected by the roll from a pool that holds a RESERVED item,
\* while a configured tier of positive weight has no available item.
C35_Witness ==
  \E p \in Procs :
    /\ proc[p].out = "selected"
    /\ \E i \in Pool(proc[p].pk) : itemStatus[i] = "RESERVED"
    /\ \E k \in DOMAIN packConfig[proc[p].pk].tierWeights :
         LET w == packConfig[proc[p].pk].tierWeights[k]
         IN /\ w.weight > 0
            /\ \A i \in Pool(proc[p].pk) : TierOf(i) = w.tierId => itemStatus[i] # "AVAILABLE"


\* Process p takes a step.
C36_Steps(p) == proc'[p] # proc[p]

\* p's transaction is about to re-read a candidate that is not AVAILABLE
\* any more.
C36_CandidateGone(p) == At(p, "txr") /\ itemStatus[proc[p].sel] # "AVAILABLE"

\* p is at the finally block with the error of the re-read.
C36_Failing(p) == At(p, "rel") /\ proc[p].out = "gone"

\* C36: when the candidate Item is no longer AVAILABLE at the re-read inside
\* the transaction, assignItemToOpening raises the error and goes straight
\* to the release of the lock: it writes nothing to the ledger, leaves the
\* health cache as it is (no invalidation, no status recompute), gives up
\* the lock and returns the error, the Opening staying as it was, that is
\* PROCESSING unless another call has given it an Assignment.
C36_GoneAbortsCleanly ==
  [][\A p \in Procs :
       /\ (C36_CandidateGone(p) /\ C36_Steps(p))
            => /\ C36_Failing(p)'
               /\ UNCHANGED << ledger, cache, locks >>
       /\ (C36_Failing(p) /\ C36_Steps(p))
            => /\ UNCHANGED << ledger, cache >>
               /\ locks'[AssignLockKey(proc[p].pk)] # p
               /\ proc'[p].pc = "idle" /\ proc'[p].out = "gone"
               /\ ~HasAssignment(proc[p].op)
                    => openings'[proc[p].op].status = "PROCESSING"]_vars

\* An assignItemToOpening call has returned the error of the re-read after
\* releasing its lock, its candidate having been reserved under it.
C36_Witness ==
  \E p \in Procs :
    /\ proc[p].pc = "idle" /\ proc[p].out = "gone"
    /\ proc[p].relres = "true"
    /\ \E i \in Items : itemStatus[i] = "RESERVED"


\* C37: under any sequence of handlePaymentConfirmed, handlePaymentFailed,
\* markOpeningRevealed and assignItemToOpening calls, an Opening's status is
\* COMPLETED or REVEALED if and only if the Opening has an Assignment.
C37_CompletedIffAssigned ==
  \A o \in DOMAIN openings :
    openings[o].status \in {"COMPLETED", "REVEALED"} <=> HasAssignment(o)


\* C38: a payment-confirmed event for one Opening delivered twice, one after
\* the other or concurrently, is processed once: the Opening has at most one
\* Assignment, soldCount grows by at most 1, and a COMPLETED Opening is never
\* moved back to PROCESSING or FAILED by the second delivery.
C38_DeliveredTwiceProcessedOnce ==
  [][\A o \in DOMAIN openings :
       /\ Cardinality({a \in DOMAIN assignments' : assignments'[a].opening = o}) <= 1
       /\ soldCount'[openings[o].pack] <= 1
       /\ openings[o].status = "COMPLETED"
            => openings'[o].status \notin {"PROCESSING", "FAILED"}]_vars


\* C40: the user's balance never becomes negative, whatever the
\* interleaving of concurrent checkout requests of the same user.
C40_BalanceNeverNegative == balance >= 0

====
